---- MODULE Spec2Model ----
(***************************************************************************)
(* A model of peridynamics.model.Model (src/peridynamics/model.py): the    *)
(* constructor Model.__init__ with the setup steps it runs (damage model,  *)
(* _volume, family, neighbour list, initial crack,                         *)
(* _set_stiffness_corrections, _set_material_types,                        *)
(* _set_boundary_conditions, integrator.build) and the driver              *)
(* Model.simulate (_simulate_initialise, _set_plus_cs, the loop over the   *)
(* steps with its snapshots, the return).                                  *)
(*                                                                         *)
(* Python values are modelled as follows.                                  *)
(*   - None and the other "kinds" of an optional argument are tagged       *)
(*     records: [kind |-> "None"], [kind |-> "ndarray", val |-> a], ...    *)
(*   - a 1-d array is a function on 0..n-1 (Python's indices), a 2-d array *)
(*     a record [rows, cols, at] with at[i][k] for i < rows, k < cols.     *)
(*   - a float is an exact rational [n |-> p, d |-> q], q > 0: rounding is *)
(*     left out; a division by zero gives numpy's inf/nan, [d |-> 0].      *)
(*   - an entry of a boundary function's list is [some |-> FALSE] (None)   *)
(*     or [some |-> TRUE, v |-> x].                                        *)
(*   - a raised exception ends the constructor: the field err of the       *)
(*     object under construction names it and every later step is skipped; *)
(*     likewise the field err of the driver for simulate.                  *)
(*   - an array made by np.empty holds an arbitrary value.                 *)
(***************************************************************************)
EXTENDS Integers, Sequences, FiniteSets, TLC

(***************************************************************************)
(* Bounds of the model.                                                    *)
(***************************************************************************)
\* Number of nodes of the meshes.
MaxNodes == 3
\* Largest entry of a caller-supplied family array.
MaxFamily == 5
\* Largest width (axis 1) of a caller-supplied neighbour list.
MaxWidth == 4
\* Largest nodal volume of a caller-supplied volume array.
MaxVolume == 2
\* Largest number of steps of a simulate call, and of simulate calls.
MaxSteps == 2
MaxRuns == 2
\* The regimes and the materials of a damage model.
MaxRegimes == 2

(***************************************************************************)
(* Python values.                                                          *)
(***************************************************************************)
None == [kind |-> "None"]

Tagged(k, v) == [kind |-> k, val |-> v]

NoneEntry == [some |-> FALSE, v |-> 0]

Entry(x) == [some |-> TRUE, v |-> x]

\* len() of a 1-d array.
ALen(a) == Cardinality(DOMAIN a)

Arr2(r, c, f) == [rows |-> r, cols |-> c, at |-> f]

\* np.zeros / np.ones of shape (r, c), filled with v.
Full2(r, c, v) == Arr2(r, c, [i \in 0..(r-1) |-> [k \in 0..(c-1) |-> v]])

Max(S) == CHOOSE x \in S : \A y \in S : y <= x

\* array.max() of a non-empty 1-d array.
AMax(a) == Max({a[i] : i \in DOMAIN a})

(***************************************************************************)
(* Exact rationals for float64 values.                                     *)
(***************************************************************************)
RECURSIVE Gcd(_, _)
Gcd(a, b) == IF b = 0 THEN a ELSE Gcd(b, a % b)

Abs(x) == IF x < 0 THEN -x ELSE x

Sign(x) == IF x < 0 THEN -1 ELSE IF x > 0 THEN 1 ELSE 0

Rat(p, q) ==
    IF q = 0 THEN [n |-> Sign(p), d |-> 0]
    ELSE LET g == Gcd(Abs(p), Abs(q))
             s == IF q < 0 THEN -1 ELSE 1
         IN  [n |-> (s * p) \div g, d |-> (s * q) \div g]

RInt(x) == [n |-> x, d |-> 1]

RAdd(a, b) == Rat(a.n * b.d + b.n * a.d, a.d * b.d)

RMul(a, b) == Rat(a.n * b.n, a.d * b.d)

RDiv(a, b) == Rat(a.n * b.d, a.d * b.n)

RPos(a) == a.d > 0 /\ a.n > 0

\* a > b, for denominators above 0.
RGt(a, b) == a.n * b.d > b.n * a.d

RECURSIVE RSum(_, _)
\* np.sum of the first n entries of an array of floats.
RSum(f, n) == IF n = 0 THEN RInt(0) ELSE RAdd(RSum(f, n - 1), f[n - 1])

(***************************************************************************)
(* Python's int.bit_length and the operators << and & on C ints.           *)
(***************************************************************************)
RECURSIVE BitLength(_)
BitLength(n) == IF n = 0 THEN 0 ELSE 1 + BitLength(Abs(n) \div 2)

RECURSIVE Shl(_, _)
Shl(x, k) == IF k = 0 THEN x ELSE Shl(2 * x, k - 1)

RECURSIVE AndNat(_, _)
AndNat(a, b) ==
    IF a = 0 \/ b = 0 THEN 0
    ELSE (a % 2) * (b % 2) + 2 * AndNat(a \div 2, b \div 2)

\* a & b for a >= 0 in two's complement: a negative b is ~(-b-1).
BitAnd(a, b) == IF b >= 0 THEN AndNat(a, b) ELSE a - AndNat(a, -b - 1)

(***************************************************************************)
(* The mesh (meshio's reading of it is outside the model).  A mesh is      *)
(* [nnodes, offset, scale]: its nodes lie in the plane z = 0 on a strip    *)
(* two nodes wide, node k at (offset + scale * (k % 2), scale * (k \div 2)),*)
(* so node 0 lies at the origin exactly when offset = 0; its triangles are *)
(* the node triples (e, e+1, e+2).                                         *)
(***************************************************************************)
MeshCoords(mesh) ==
    [k \in 0..(mesh.nnodes - 1) |->
        <<mesh.offset + mesh.scale * (k % 2), mesh.scale * (k \div 2)>>]

MeshConnectivity(mesh) == [e \in 1..(mesh.nnodes - 2) |-> <<e - 1, e, e + 1>>]

Origin == <<0, 0>>

(***************************************************************************)
(* The neighbour-list module (peridynamics.neighbour_list), whose code is  *)
(* not part of the sources at hand: modelled from the specification's      *)
(* section 4.1.                                                             *)
(***************************************************************************)
\* The nodes within the horizon of node i.
Dist2(p, q) == (p[1] - q[1]) * (p[1] - q[1]) + (p[2] - q[2]) * (p[2] - q[2])

Neighbours(coords, horizon, i) ==
    {j \in DOMAIN coords : j # i /\ Dist2(coords[i], coords[j]) <= horizon * horizon}

set_family(coords, horizon) ==
    [i \in DOMAIN coords |-> Cardinality(Neighbours(coords, horizon, i))]

\* The k-th smallest element (k = 0, 1, ...) of a set of numbers.
Kth(S, k) == CHOOSE x \in S : Cardinality({y \in S : y < x}) = k

\* The sentinel of an unused slot of node i: the node's own index.
Pad(i) == i

\* The neighbour list of width max_neighbours: the neighbours of each node in
\* ascending order, the unused trailing slots padded.  A node with more
\* neighbours than max_neighbours does not fit: ok is FALSE.
create_neighbour_list(coords, horizon, max_neighbours) ==
    LET n   == ALen(coords)
        nb(i) == Neighbours(coords, horizon, i)
    IN  [ok      |-> \A i \in DOMAIN coords : Cardinality(nb(i)) <= max_neighbours,
         nlist   |-> Arr2(n, max_neighbours,
                          [i \in 0..(n-1) |-> [k \in 0..(max_neighbours-1) |->
                              IF k < Cardinality(nb(i)) THEN Kth(nb(i), k) ELSE Pad(i)]]),
         n_neigh |-> [i \in 0..(n-1) |-> Cardinality(nb(i))]]

\* Row i of nlist with node j removed from its first cnt slots: the slots
\* after j move one to the left and the freed slot takes the sentinel.
RemoveFromRow(row, cnt, i, j) ==
    LET hit == {k \in DOMAIN row : k < cnt /\ row[k] = j}
    IN  IF hit = {} THEN row
        ELSE LET p == Kth(hit, 0)
             IN  [k \in DOMAIN row |->
                    IF k < p THEN row[k]
                    ELSE IF k + 1 < cnt THEN row[k + 1]
                    ELSE IF k + 1 = cnt THEN Pad(i)
                    ELSE row[k]]

HasBond(row, cnt, j) == \E k \in DOMAIN row : k < cnt /\ row[k] = j

\* One pair (i, j) of the crack removed from both directions of the bond.
CrackPair(c, i, j) ==
    LET r1 == IF HasBond(c.nlist.at[i], c.n_neigh[i], j)
              THEN [nl |-> RemoveFromRow(c.nlist.at[i], c.n_neigh[i], i, j),
                    nn |-> c.n_neigh[i] - 1]
              ELSE [nl |-> c.nlist.at[i], nn |-> c.n_neigh[i]]
        r2 == IF HasBond(c.nlist.at[j], c.n_neigh[j], i)
              THEN [nl |-> RemoveFromRow(c.nlist.at[j], c.n_neigh[j], j, i),
                    nn |-> c.n_neigh[j] - 1]
              ELSE [nl |-> c.nlist.at[j], nn |-> c.n_neigh[j]]
    IN  [nlist   |-> [c.nlist EXCEPT !.at = [@ EXCEPT ![i] = r1.nl, ![j] = r2.nl]],
         n_neigh |-> [c.n_neigh EXCEPT ![i] = r1.nn, ![j] = r2.nn]]

\* create_crack_cython / create_crack_cl: every pair of the crack list, in
\* order, removed from the connectivity c = [nlist, n_neigh].
RECURSIVE create_crack(_, _)
create_crack(crack, c) ==
    IF crack = <<>> THEN c
    ELSE create_crack(Tail(crack), CrackPair(c, Head(crack)[1], Head(crack)[2]))

(***************************************************************************)
(* The object under construction.  Its fields are the attributes of self   *)
(* (Unset before their assignment) and, beside them, the trace of the      *)
(* construction: err (the exception raised, "none" if none), errmsg (the   *)
(* node indices a FamilyError's message lists), log (the setup steps and   *)
(* write_array calls performed, in order), calls (how often each caller    *)
(* function was invoked), builds (the calls of integrator.build),          *)
(* assigned (the attributes of self assigned so far), tested (the node     *)
(* pairs handed to the crack function of initial_crack_helper, in order)   *)
(* and crack (the list of pairs handed to create_crack).                   *)
(***************************************************************************)
Unset == [kind |-> "unset"]

NoCalls == [disp |-> 0, force |-> 0, tip |-> 0, crack |-> 0, bond_type |-> 0]

New(a) ==
    [err |-> "none", errmsg |-> <<>>, log |-> <<>>, calls |-> NoCalls, builds |-> 0,
     assigned |-> {}, tested |-> <<>>, crack |-> <<>>,
     nnodes |-> a.mesh.nnodes, coords |-> MeshCoords(a.mesh),
     mesh_connectivity |-> MeshConnectivity(a.mesh),
     dimensions |-> a.dimensions, horizon |-> a.horizon,
     write_path |-> a.write_path,
     nregimes |-> Unset, nmaterials |-> Unset,
     bond_stiffness |-> Unset, critical_stretch |-> Unset,
     volume |-> Unset, sum_total_volume |-> Unset, volume_total |-> Unset,
     family |-> Unset, max_neighbours |-> Unset,
     nlist |-> Unset, n_neigh |-> Unset,
     stiffness_corrections |-> Unset, material_types |-> Unset,
     bc_types |-> Unset, bc_values |-> Unset,
     force_bc_types |-> Unset, force_bc_values |-> Unset, tip_types |-> Unset]

Raise(m, e) == [m EXCEPT !.err = e]

Assigned(m, names) == [m EXCEPT !.assigned = @ \cup names]

Logged(m, step) == [m EXCEPT !.log = Append(@, step)]

\* write_array(write_path, name, array) when a write path was given.
Written(m, name) ==
    IF m.write_path.kind # "None" THEN Logged(m, "write_" \o name) ELSE m

(***************************************************************************)
(* Model.__init__, lines 252-274: the stiffnesses and critical stretches   *)
(* of the damage model.  Each is a float, or a list or numpy array of one  *)
(* or two dimensions: [shape, at], the entry of a float being at[0][0] and *)
(* entry i of a one-dimensional array at[i][0].                            *)
(***************************************************************************)
Scalar(v) == [shape |-> <<>>, at |-> [i \in 0..0 |-> [j \in 0..0 |-> v]]]

Vector(n, v) ==
    [shape |-> <<n>>, at |-> [i \in 0..(n - 1) |-> [j \in 0..0 |-> RInt(v + i)]]]

Table(r, c, v) ==
    [shape |-> <<r, c>>,
     at |-> [i \in 0..(r - 1) |-> [j \in 0..(c - 1) |-> RInt(v + 2 * i + j)]]]

\* np.shape: the empty tuple for a float.
NpShape(x) == x.val.shape

\* The class that `(list or np.ndarray)` evaluates to: `or` gives its first
\* operand when that operand is true, and a class is true.
ListOrNdarray == "list"

\* np.array(x, dtype=np.float64) of a list, np.float64(x) of anything else.
AsArray(x) == IF x.kind = "list" THEN [x EXCEPT !.kind = "ndarray"] ELSE x

DamageModelStage(a, m) ==
    IF m.err # "none" THEN m
    ELSE IF a.bond_stiffness.kind = ListOrNdarray
    THEN IF NpShape(a.bond_stiffness) # NpShape(a.critical_stretch)
         THEN Raise(m, "ValueError")
         ELSE LET shape == NpShape(a.bond_stiffness)
                  m1 == IF shape = <<1>>
                        THEN [m EXCEPT !.nregimes = 1, !.nmaterials = 1]
                        ELSE IF Len(shape) < 2 THEN Raise(m, "IndexError")
                        \* np.shape(bond_stiffness)[1] and [0].
                        ELSE [m EXCEPT !.nregimes = shape[2],
                                       !.nmaterials = shape[1]]
              IN  IF m1.err # "none" THEN m1
                  ELSE [m1 EXCEPT !.bond_stiffness = AsArray(a.bond_stiffness),
                                  !.critical_stretch = AsArray(a.critical_stretch),
                                  !.assigned = @ \cup {"nregimes", "nmaterials",
                                                       "bond_stiffness", "critical_stretch"}]
    ELSE [m EXCEPT !.nregimes = 1, !.nmaterials = 1,
                   !.critical_stretch = AsArray(a.critical_stretch),
                   !.bond_stiffness = AsArray(a.bond_stiffness),
                   !.assigned = @ \cup {"nregimes", "nmaterials",
                                        "bond_stiffness", "critical_stretch"}]

(***************************************************************************)
(* Model._volume.                                                          *)
(***************************************************************************)
\* Twice the area of the triangle a, b, c: the norm of cross(b - a, c - a).
Cross2(a, b, c) ==
    Abs((b[1] - a[1]) * (c[2] - a[2]) - (b[2] - a[2]) * (c[1] - a[1]))

\* The loop over the mesh's elements (dimensions = 2: triangles), from
\* element e on: [volume, sum_total_volume].
RECURSIVE VolumeLoop(_, _, _)
VolumeLoop(m, e, acc) ==
    IF e > Len(m.mesh_connectivity) THEN acc
    ELSE LET nodes == m.mesh_connectivity[e]
             element_volume == Rat(Cross2(m.coords[nodes[1]], m.coords[nodes[2]],
                                          m.coords[nodes[3]]), 2)
             share == RDiv(element_volume, RInt(3))
         IN  VolumeLoop(m, e + 1,
                [volume |-> [i \in DOMAIN acc.volume |->
                                IF \E k \in 1..3 : nodes[k] = i
                                THEN RAdd(acc.volume[i], share) ELSE acc.volume[i]],
                 sum_total_volume |-> RAdd(acc.sum_total_volume, element_volume)])

_volume(m, transfinite, volume_total) ==
    IF transfinite # 0
    THEN [volume |-> [i \in 0..(m.nnodes - 1) |->
                         RDiv(volume_total.val, RInt(m.nnodes))],
          sum_total_volume |-> volume_total.val]
    ELSE VolumeLoop(m, 1, [volume |-> [i \in 0..(m.nnodes - 1) |-> RInt(0)],
                            sum_total_volume |-> RInt(0)])

(***************************************************************************)
(* Model.__init__, lines 276-297: the nodal volumes.                       *)
(***************************************************************************)
VolumeStage(a, m) ==
    IF m.err # "none" THEN m
    ELSE IF a.transfinite # 0 /\ a.volume_total.kind = "None" THEN Raise(m, "ValueError")
    ELSE IF a.volume.kind = "None"
    THEN LET v == _volume(m, a.transfinite, a.volume_total)
         IN  Written([Logged(m, "_volume") EXCEPT
                         !.volume = v.volume,
                         !.sum_total_volume = v.sum_total_volume,
                         !.assigned = @ \cup {"volume", "sum_total_volume"}], "volume")
    ELSE IF a.volume.kind = "ndarray"
    THEN IF ALen(a.volume.val) # m.nnodes THEN Raise(m, "ValueError")
         ELSE [m EXCEPT !.volume = a.volume.val, !.assigned = @ \cup {"volume"}]
    ELSE Raise(m, "TypeError")

(***************************************************************************)
(* FamilyError.__init__: the indices np.where(family == 0)[0], ascending,  *)
(* as the message lists them.                                              *)
(***************************************************************************)
ZeroIndices(family) == {i \in DOMAIN family : family[i] = 0}

\* A message that stops at the first zero entry: what FamilyErrorMessage
\* must differ from for the enumeration of the indices to be complete.
FirstZeroIndexOnly(family) ==
    [k \in 1..1 |-> Kth(ZeroIndices(family), 0)]

FamilyErrorMessage(family) ==
    [k \in 1..Cardinality(ZeroIndices(family)) |-> Kth(ZeroIndices(family), k - 1)]

\* np.any(self.family == 0)
AnyZero(family) == \E i \in DOMAIN family : family[i] = 0

\* A constructor that goes on whatever the family holds.
FamilyUnchecked(m) == m

(***************************************************************************)
(* Model.__init__, lines 299-316: the family of each node.                 *)
(***************************************************************************)
FamilyCheck(m) ==
    IF AnyZero(m.family)
    THEN [m EXCEPT !.err = "FamilyError", !.errmsg = FamilyErrorMessage(m.family)]
    ELSE m

FamilyStage(a, m) ==
    IF m.err # "none" THEN m
    ELSE IF a.family.kind = "None"
    THEN FamilyCheck(Written([Logged(m, "set_family") EXCEPT
                                 !.family = set_family(m.coords, m.horizon),
                                 !.assigned = @ \cup {"family"}], "family"))
    ELSE IF a.family.kind = "ndarray"
    THEN IF ALen(a.family.val) # m.nnodes THEN Raise(m, "ValueError")
         ELSE FamilyCheck([m EXCEPT !.family = a.family.val,
                                     !.assigned = @ \cup {"family"}])
    ELSE Raise(m, "TypeError")

(***************************************************************************)
(* Model.__init__, lines 318-398: the neighbour list and the initial crack.*)
(***************************************************************************)
\* The width without the decrement of line 362, 1 << fmax.bit_length(): the
\* power of two strictly above fmax.
PaddedWidthAbove(fmax) == Shl(1, BitLength(fmax))

\* Line 362: 1 << (int(self.family.max() - 1)).bit_length()
PaddedWidth(fmax) == Shl(1, BitLength(fmax - 1))

\* Lines 378-379: self.max_neighbours & (self.max_neighbours - 1), truthy?
NotPowerOfTwoTest(width) == BitAnd(width, width - 1) # 0

\* Lines 324-329 and 358-369: no connectivity given, the list is built.
BuildNeighbourList(a, m, width, builder) ==
    LET c  == create_neighbour_list(m.coords, m.horizon, width)
        m1 == [Logged(m, builder) EXCEPT !.max_neighbours = width,
                                         !.assigned = @ \cup {"max_neighbours"}]
    IN  IF ~c.ok THEN Raise(m1, "IndexError")
        ELSE [m1 EXCEPT !.nlist = c.nlist, !.n_neigh = c.n_neigh]

\* Lines 330-343: the sequential backend takes the caller's connectivity.
TakeConnectivityCython(a, m) ==
    IF a.connectivity.val.len # 2 THEN Raise(m, "ValueError")
    ELSE LET m1 == [m EXCEPT !.max_neighbours = a.connectivity.val.nlist.cols,
                             !.assigned = @ \cup {"max_neighbours"}]
         IN  IF m1.max_neighbours # AMax(m.family) THEN Raise(m1, "ValueError")
             ELSE [m1 EXCEPT !.nlist = a.connectivity.val.nlist,
                             !.n_neigh = a.connectivity.val.n_neigh]

\* Lines 370-384: the OpenCL backend takes the caller's connectivity.
TakeConnectivityCL(a, m) ==
    IF a.connectivity.val.len # 2 THEN Raise(m, "ValueError")
    ELSE LET m1 == [m EXCEPT !.max_neighbours = a.connectivity.val.nlist.cols,
                             !.assigned = @ \cup {"max_neighbours"}]
         IN  IF NotPowerOfTwoTest(m1.max_neighbours) THEN Raise(m1, "ValueError")
             ELSE [m1 EXCEPT !.nlist = a.connectivity.val.nlist,
                             !.n_neigh = a.connectivity.val.n_neigh]

\* initial_crack_helper, lines 1147-1149: the pairs (i, j), i < j, of the
\* first k slots of the neighbour list read row by row, in that order.
RECURSIVE BondedPairs(_, _, _)
BondedPairs(nlist, n_neigh, k) ==
    IF k = 0 THEN <<>>
    ELSE LET i == (k - 1) \div nlist.cols
             slot == (k - 1) % nlist.cols
             pairs == BondedPairs(nlist, n_neigh, k - 1)
         IN  IF slot < n_neigh[i] /\ i < nlist.at[i][slot]
             THEN Append(pairs, <<i, nlist.at[i][slot]>>)
             ELSE pairs

\* Lines 1147-1153 raise IndexError on a missing n_neigh[i] or coords[j].
HelperDefined(m) ==
    \A i \in 0..(m.nlist.rows - 1) :
        /\ i \in DOMAIN m.n_neigh
        /\ \A k \in 0..(m.nlist.cols - 1) :
              k < m.n_neigh[i] => m.nlist.at[i][k] \in DOMAIN m.coords

\* Lines 1151-1155: the function initial_crack_helper(crack_function)
\* returns, applied to (coords, nlist, n_neigh).
initial_crack(crack_function, coords, nlist, n_neigh) ==
    LET cracked(p) == crack_function[<<coords[p[1]], coords[p[2]]>>]
    IN  SelectSeq(BondedPairs(nlist, n_neigh, nlist.rows * nlist.cols), cracked)

\* Lines 347-355 and 388-396: the initial crack removed from the neighbour
\* list.  initial_crack is a list of node pairs, a callable [arity, returns]
\* taking arity arguments and returning the list returns, or the function
\* that initial_crack_helper made of a crack function; a callable is called
\* with (self.coords, nlist, n_neigh).
CrackStep(a, m, cracker) ==
    IF m.err # "none" THEN m
    ELSE IF a.initial_crack.kind = "list" /\ a.initial_crack.val = <<>> THEN m
    ELSE IF a.initial_crack.kind = "callable" /\ a.initial_crack.val.arity # 3
    THEN Raise(m, "TypeError")
    ELSE IF a.initial_crack.kind = "helper" /\ ~HelperDefined(m)
    THEN Raise([m EXCEPT !.calls.crack = @ + 1], "IndexError")
    ELSE LET crack == IF a.initial_crack.kind = "list" THEN a.initial_crack.val
                      ELSE IF a.initial_crack.kind = "callable"
                      THEN a.initial_crack.val.returns
                      ELSE initial_crack(a.initial_crack.val, m.coords, m.nlist, m.n_neigh)
             m1 == IF a.initial_crack.kind = "list" THEN [m EXCEPT !.crack = crack]
                   ELSE IF a.initial_crack.kind = "callable"
                   THEN [m EXCEPT !.calls.crack = @ + 1, !.crack = crack]
                   ELSE [m EXCEPT !.calls.crack = @ + 1, !.crack = crack,
                                  !.tested = BondedPairs(m.nlist, m.n_neigh,
                                                         m.nlist.rows * m.nlist.cols)]
             valid == \A p \in 1..Len(crack) : \A q \in 1..2 :
                         /\ crack[p][q] \in 0..(m.nlist.rows - 1)
                         /\ crack[p][q] \in DOMAIN m.n_neigh
                         /\ m.n_neigh[crack[p][q]] <= m.nlist.cols
         IN  IF ~valid THEN Raise(m1, "IndexError")
             ELSE LET c == create_crack(crack, [nlist |-> m.nlist, n_neigh |-> m.n_neigh])
                  IN  [Logged(m1, cracker) EXCEPT !.nlist = c.nlist, !.n_neigh = c.n_neigh]

NeighbourListStage(a, m) ==
    IF a.context = "None"
    THEN CrackStep(a,
            IF a.connectivity.kind = "None"
            THEN BuildNeighbourList(a, m, AMax(m.family), "create_neighbour_list_cython")
            ELSE IF a.connectivity.kind = "tuple" THEN TakeConnectivityCython(a, m)
            ELSE Raise(m, "TypeError"),
            "create_crack_cython")
    ELSE CrackStep(a,
            IF a.connectivity.kind = "None"
            THEN LET m1 == BuildNeighbourList(a, m, PaddedWidth(AMax(m.family)),
                                              "create_neighbour_list_cl")
                 IN  IF m1.err # "none" THEN m1
                     ELSE Written(Written(m1, "nlist"), "n_neigh")
            ELSE IF a.connectivity.kind = "tuple" THEN TakeConnectivityCL(a, m)
            ELSE Raise(m, "TypeError"),
            "create_crack_cl")

\* Line 398: self.initial_connectivity = (nlist, n_neigh).
ConnectivityStage(a, m) ==
    IF m.err # "none" THEN m
    ELSE LET m1 == NeighbourListStage(a, m)
         IN  IF m1.err # "none" THEN m1 ELSE Assigned(m1, {"initial_connectivity"})

(***************************************************************************)
(* Model._set_stiffness_corrections.  A factor is a multiple of the bulk   *)
(* family volume plus a constant, [bulk |-> c, const |-> k]: the bulk      *)
(* family volume (pi * horizon^2 * 0.001 in 2-d, 4/3 * pi * horizon^3 in   *)
(* 3-d) is irrational and is kept as a symbol.                             *)
(***************************************************************************)
One == [bulk |-> RInt(0), const |-> RInt(1)]

RECURSIVE SumVolumes(_, _, _)
\* Lines 660-663: tmp += self.volume[neighbour_list[j]] for j < count.
SumVolumes(m, row, count) ==
    IF count = 0 THEN RInt(0)
    ELSE RAdd(SumVolumes(m, row, count - 1), m.volume[row[count - 1]])

\* Lines 659-664 raise IndexError when a row of nlist is missing, when
\* family[i] exceeds the row's length or when a slot holds no node index.
FamilyVolumesDefined(m) ==
    \A i \in 0..(m.nnodes - 1) :
        /\ i < m.nlist.rows
        /\ m.family[i] <= m.nlist.cols
        /\ \A j \in 0..(m.family[i] - 1) : m.nlist.at[i][j] \in DOMAIN m.volume

FamilyVolumes(m) ==
    [i \in 0..(m.nnodes - 1) |-> SumVolumes(m, m.nlist.at[i], m.family[i])]

\* Lines 672-679 raise IndexError on a missing n_neigh[i] or slot.
PreciseDefined(m) ==
    \A i \in 0..(m.nnodes - 1) :
        /\ i \in DOMAIN m.n_neigh
        /\ m.n_neigh[i] <= m.nlist.cols
        /\ \A k \in 0..(m.n_neigh[i] - 1) : m.nlist.at[i][k] \in 0..(m.nnodes - 1)

\* Lines 676-677.
PreciseFactor(family_volume_i, family_volume_j) ==
    [bulk  |-> RDiv(RInt(2), RAdd(family_volume_i, family_volume_j)),
     const |-> RInt(0)]

PreciseCorrections(m) ==
    LET family_volumes == FamilyVolumes(m)
    IN  Arr2(m.nnodes, m.max_neighbours,
             [i \in 0..(m.nnodes - 1) |-> [k \in 0..(m.max_neighbours - 1) |->
                 IF k < m.n_neigh[i]
                 THEN PreciseFactor(family_volumes[i], family_volumes[m.nlist.at[i][k]])
                 ELSE One]])

\* precise_stiffness_correction is [kind |-> "None"] or [kind |-> "int", val |-> x].
_set_stiffness_corrections(m, precise) ==
    LET m1 == Logged(m, "_set_stiffness_corrections")
        ones == Full2(m.nnodes, m.max_neighbours, One)
    IN  IF ~FamilyVolumesDefined(m) THEN Raise(m1, "IndexError")
        ELSE IF precise.kind = "int" /\ precise.val = 1
        THEN IF ~PreciseDefined(m) THEN Raise(m1, "IndexError")
             ELSE Written([m1 EXCEPT !.stiffness_corrections = PreciseCorrections(m)],
                          "stiffness_corrections")
        ELSE IF precise.kind = "int" /\ precise.val = 0
        THEN \* Line 682 reads self.volume_total, which no code assigns.
             IF m.volume_total = Unset THEN Raise(m1, "AttributeError")
             ELSE \* Line 686 iterates over the integer n_neigh[i].
                  Raise(m1, "TypeError")
        ELSE IF precise.kind = "None"
        THEN Written([m1 EXCEPT !.stiffness_corrections = ones], "stiffness_corrections")
        ELSE Raise(m1, "ValueError")

(***************************************************************************)
(* Model.__init__, lines 401-419.                                          *)
(***************************************************************************)
StiffnessStage(a, m) ==
    IF m.err # "none" THEN m
    ELSE IF a.stiffness_corrections.kind = "None"
    THEN LET m1 == _set_stiffness_corrections(m, a.precise_stiffness_correction)
         IN  IF m1.err # "none" THEN m1 ELSE Assigned(m1, {"stiffness_corrections"})
    ELSE IF a.stiffness_corrections.kind = "ndarray"
    THEN IF <<a.stiffness_corrections.val.rows, a.stiffness_corrections.val.cols>>
                # <<m.nnodes, m.max_neighbours>>
         THEN Raise(m, "ValueError")
         ELSE [m EXCEPT !.stiffness_corrections = a.stiffness_corrections.val,
                        !.assigned = @ \cup {"stiffness_corrections"}]
    ELSE Raise(m, "TypeError")

(***************************************************************************)
(* Model._set_material_types and Model.__init__, lines 421-441.  bond_type *)
(* is None (the dummy returning 0) or [kind |-> "fn", val |-> f] with      *)
(* f[<<x, y>>] the value it returns for the coordinates x and y.           *)
(***************************************************************************)
BondType(a, x, y) == IF a.bond_type.kind = "None" THEN 0 ELSE a.bond_type.val[<<x, y>>]

\* Lines 615-619 raise IndexError on a missing n_neigh[i], row or slot.
MaterialDefined(m) ==
    \A i \in 0..(m.nnodes - 1) :
        /\ i \in DOMAIN m.n_neigh
        /\ i < m.nlist.rows
        /\ m.n_neigh[i] <= m.nlist.cols
        /\ m.n_neigh[i] <= m.max_neighbours
        /\ \A k \in 0..(m.n_neigh[i] - 1) : m.nlist.at[i][k] \in DOMAIN m.coords

RECURSIVE SumNeigh(_, _)
SumNeigh(n_neigh, n) == IF n = 0 THEN 0 ELSE n_neigh[n - 1] + SumNeigh(n_neigh, n - 1)

_set_material_types(a, m) ==
    LET m1 == Logged(m, "_set_material_types")
    IN  IF ~MaterialDefined(m) THEN Raise(m1, "IndexError")
        ELSE Written(
               [m1 EXCEPT
                  !.calls.bond_type = @ + SumNeigh(m.n_neigh, m.nnodes),
                  !.material_types =
                     Arr2(m.nnodes, m.max_neighbours,
                          [i \in 0..(m.nnodes - 1) |-> [k \in 0..(m.max_neighbours - 1) |->
                              IF k < m.n_neigh[i]
                              THEN BondType(a, m.coords[i], m.coords[m.nlist.at[i][k]])
                              ELSE 0]])],
               "material_types")

MaterialStage(a, m) ==
    IF m.err # "none" THEN m
    ELSE IF a.material_types.kind = "None"
    THEN LET m1 == _set_material_types(a, m)
         IN  IF m1.err # "none" THEN m1 ELSE Assigned(m1, {"material_types"})
    ELSE IF a.material_types.kind = "ndarray"
    THEN IF <<a.material_types.val.rows, a.material_types.val.cols>>
                # <<m.nnodes, m.max_neighbours>>
         THEN Raise(m, "ValueError")
         ELSE [m EXCEPT !.material_types = a.material_types.val,
                        !.assigned = @ \cup {"material_types"}]
    ELSE Raise(m, "TypeError")

(***************************************************************************)
(* The caller's boundary functions.  An argument is None (__init__ then    *)
(* defines the dummy returning [None, None, None], lines 443-458), not     *)
(* callable, or a function [kind |-> "fn", val |-> f] with f[p] the value  *)
(* returned for the coordinate p.  A returned value is                     *)
(* [kind |-> "list" | "tuple" | "nonseq", val |-> <<entries>>].            *)
(***************************************************************************)
ListOf(entries) == [kind |-> "list", val |-> entries]

DummyReturn == ListOf(<<NoneEntry, NoneEntry, NoneEntry>>)

Callable(f) == f.kind \in {"None", "fn"}

Apply(f, p) == IF f.kind = "None" THEN DummyReturn ELSE f.val[p]

(***************************************************************************)
(* Model._set_boundary_conditions, lines 787-799: the three functions are  *)
(* checked on the coordinate [0, 0, 0].  The result is the exception and   *)
(* the number of calls made of the function.                               *)
(***************************************************************************)
\* A check that calls the function once and keeps the value: what the two
\* calls of lines 793 and 797 must differ from in the number of calls.
ProbeKeepingValue(f) ==
    IF ~Callable(f) THEN [err |-> "TypeError", calls |-> 0]
    ELSE IF Apply(f, Origin).kind # "list" \/ Len(Apply(f, Origin).val) # 3
    THEN [err |-> "TypeError", calls |-> 1]
    ELSE [err |-> "none", calls |-> 1]

ProbeFunction(f) ==
    IF ~Callable(f) THEN [err |-> "TypeError", calls |-> 0]
    ELSE IF Apply(f, Origin).kind # "list" THEN [err |-> "TypeError", calls |-> 1]
    ELSE IF Len(Apply(f, Origin).val) # 3 THEN [err |-> "TypeError", calls |-> 2]
    ELSE [err |-> "none", calls |-> 2]

(***************************************************************************)
(* Lines 812-834: the loop over the nodes.                                 *)
(***************************************************************************)
\* seq[j] of a returned value: the exception it raises, if any.
SubscriptError(r, j) ==
    IF r.kind = "nonseq" THEN "TypeError"
    ELSE IF Len(r.val) <= j THEN "IndexError"
    ELSE "none"

\* Lines 817-820 for axis j, in the order forces_bnd[j], bnd[j], tip[j].
AxisError(r, j) ==
    IF SubscriptError(r.f, j) # "none" THEN SubscriptError(r.f, j)
    ELSE IF SubscriptError(r.d, j) # "none" THEN SubscriptError(r.d, j)
    ELSE SubscriptError(r.t, j)

DegreesOfFreedom == 3

RECURSIVE NodeErrorFrom(_, _)
NodeErrorFrom(r, j) ==
    IF j = DegreesOfFreedom THEN "none"
    ELSE IF AxisError(r, j) # "none" THEN AxisError(r, j)
    ELSE NodeErrorFrom(r, j + 1)

\* Lines 813-815: the three functions called on the coordinate of node i.
NodeReturns(a, m, i) ==
    [d |-> Apply(a.is_displacement_boundary, m.coords[i]),
     f |-> Apply(a.is_forces_boundary, m.coords[i]),
     t |-> Apply(a.is_tip, m.coords[i])]

\* The nodes at which the loop raises.
FailingNodes(a, m) ==
    {i \in 0..(m.nnodes - 1) : NodeErrorFrom(NodeReturns(a, m, i), 0) # "none"}

\* The type array of the example script (example5.py, lines 141-143): the
\* returned number itself, 2 standing for no condition.
BcTypeOfExample(bnd_j) == IF bnd_j.some THEN bnd_j.v ELSE 2

\* Lines 822-824.
BcType(bnd_j) == IF bnd_j.some THEN 1 ELSE 0

BcValue(bnd_j) == IF bnd_j.some THEN RInt(bnd_j.v) ELSE RInt(0)

\* Lines 826-830.
ForceBcValue(forces_bnd_j, volume_i) ==
    IF forces_bnd_j.some THEN RDiv(RInt(forces_bnd_j.v), volume_i) ELSE RInt(0)

\* Lines 816, 827, 834: is_force_node of node i.
IsForceNode(r) == \E j \in 1..DegreesOfFreedom : r.f.val[j].some

\* The value left as line 830 computed it.
NotNormalised(value, num_force_bc_nodes) == value

\* Lines 835-837.
Normalised(value, num_force_bc_nodes) ==
    IF num_force_bc_nodes # 0 THEN RDiv(value, RInt(num_force_bc_nodes)) ELSE value

_set_boundary_conditions(a, m) ==
    LET pd == ProbeFunction(a.is_displacement_boundary)
        pf == ProbeFunction(a.is_forces_boundary)
        pt == ProbeFunction(a.is_tip)
        m1 == Logged(m, "_set_boundary_conditions")
    IN  IF pd.err # "none"
        THEN [m1 EXCEPT !.err = pd.err, !.calls.disp = @ + pd.calls]
        ELSE IF pf.err # "none"
        THEN [m1 EXCEPT !.err = pf.err, !.calls.disp = @ + pd.calls,
                        !.calls.force = @ + pf.calls]
        ELSE IF pt.err # "none"
        THEN [m1 EXCEPT !.err = pt.err, !.calls.disp = @ + pd.calls,
                        !.calls.force = @ + pf.calls, !.calls.tip = @ + pt.calls]
        ELSE IF FailingNodes(a, m) # {}
        THEN LET i == Kth(FailingNodes(a, m), 0)
             IN  [m1 EXCEPT !.err = NodeErrorFrom(NodeReturns(a, m, i), 0),
                            !.calls.disp = @ + pd.calls + (i + 1),
                            !.calls.force = @ + pf.calls + (i + 1),
                            !.calls.tip = @ + pt.calls + (i + 1)]
        ELSE LET r(i) == NodeReturns(a, m, i)
                 num_force_bc_nodes ==
                    Cardinality({i \in 0..(m.nnodes - 1) : IsForceNode(r(i))})
                 types(i, j) == BcType(r(i).d.val[j + 1])
                 values(i, j) == BcValue(r(i).d.val[j + 1])
                 ftypes(i, j) == BcType(r(i).f.val[j + 1])
                 fvalues(i, j) == Normalised(ForceBcValue(r(i).f.val[j + 1], m.volume[i]),
                                             num_force_bc_nodes)
                 ttypes(i, j) == BcType(r(i).t.val[j + 1])
                 \* Lines 801-810: an array of shape (nnodes, degrees_freedom).
                 Grid(mm, f(_, _)) ==
                    [i \in 0..(mm.nnodes - 1) |->
                        [j \in 0..(DegreesOfFreedom - 1) |-> f(i, j)]]
             IN  [m1 EXCEPT
                    !.calls.disp = @ + pd.calls + m.nnodes,
                    !.calls.force = @ + pf.calls + m.nnodes,
                    !.calls.tip = @ + pt.calls + m.nnodes,
                    !.bc_types = Grid(m, types),
                    !.bc_values = Grid(m, values),
                    !.force_bc_types = Grid(m, ftypes),
                    !.force_bc_values = Grid(m, fvalues),
                    !.tip_types = Grid(m, ttypes)]

(***************************************************************************)
(* Model.__init__, lines 443-473: the boundary arrays and the integrator.  *)
(***************************************************************************)
BoundaryStage(a, m) ==
    IF m.err # "none" THEN m
    ELSE LET m1 == _set_boundary_conditions(a, m)
         IN  IF m1.err # "none" THEN m1 ELSE Assigned(m1, {"tip_types"})

\* A constructor that builds the integrator before the setup, whether or
\* not the setup then succeeds.
BuildFirst(a, m) == [m EXCEPT !.builds = @ + 1, !.log = <<"integrator.build">> \o @]

BuildStage(a, m) ==
    IF m.err # "none" THEN m
    ELSE [Logged(m, "integrator.build") EXCEPT !.builds = @ + 1]

\* Model.__init__ from line 252 on.
Constructed(a) ==
    BuildStage(a, BoundaryStage(a, MaterialStage(a, StiffnessStage(a,
        ConnectivityStage(a, FamilyStage(a, VolumeStage(a,
            DamageModelStage(a, New(a)))))))))

(***************************************************************************)
(* The state: the constructor's arguments, the Model object (Unset before  *)
(* the constructor ran), the place of the program and the driver.          *)
(***************************************************************************)
VARIABLES args, self, pc, sim

vars == <<args, self, pc, sim>>

(***************************************************************************)
(* The arguments of Model(...).                                            *)
(***************************************************************************)
NodesOf(mesh) == 0..(mesh.nnodes - 1)

\* The default arguments on a mesh: OpenCL or sequential integrator, a
\* transfinite mesh of total volume 1, a damage model of one regime and
\* one material given by floats, everything else left to the constructor.
DefaultArgs(context, mesh, horizon) ==
    [context |-> context, mesh |-> mesh, dimensions |-> 2, horizon |-> horizon,
     bond_stiffness |-> Tagged("float", Scalar(RInt(1))),
     critical_stretch |-> Tagged("float", Scalar(RInt(1))),
     transfinite |-> 1, volume_total |-> Tagged("float", RInt(1)),
     write_path |-> None, connectivity |-> None, family |-> None, volume |-> None,
     initial_crack |-> Tagged("list", <<>>), bond_type |-> None,
     is_displacement_boundary |-> None, is_forces_boundary |-> None, is_tip |-> None,
     material_types |-> None, stiffness_corrections |-> None,
     precise_stiffness_correction |-> None]

Contexts == {"None", "cl"}

\* Meshes and horizons: every node within the horizon of node 0 only, of
\* every other node, or of none.
Geometries ==
    {[mesh |-> [nnodes |-> MaxNodes, offset |-> 0, scale |-> g[1]], horizon |-> g[2]] :
        g \in {<<1, 1>>, <<1, 2>>, <<2, 1>>}}

WritePaths == {None, Tagged("path", "out")}

Cracks == {Tagged("list", <<>>), Tagged("list", <<<<0, 1>>>>)}

\* Family arrays: every array of the right length, one that is too long and
\* a value that is no array.
Families(n) ==
    {None, Tagged("list", <<>>)}
    \cup {Tagged("ndarray", f) : f \in [0..(n - 1) -> 0..MaxFamily]}
    \cup {Tagged("ndarray", [i \in 0..n |-> 1])}

\* The neighbour list of r rows and c columns whose row i lists the nodes
\* after i, cyclically.
RingList(n, r, c) == Arr2(r, c, [i \in 0..(r - 1) |-> [k \in 0..(c - 1) |-> (i + k + 1) % n]])

Constant1(len, v) == [i \in 0..(len - 1) |-> v]

Connectivities(n, coords, horizon) ==
    {None, Tagged("list", <<>>)}
    \cup {Tagged("tuple", [len |-> 3, nlist |-> RingList(n, n, 1),
                           n_neigh |-> Constant1(n, 1)])}
    \cup {Tagged("tuple", [len |-> 2, nlist |-> RingList(n, r, c), n_neigh |-> nn]) :
            r \in {n, n + 1}, c \in 0..MaxWidth,
            nn \in {Constant1(n, v) : v \in 0..MaxWidth}
                   \cup {Constant1(n + 1, 1), set_family(coords, horizon)}}

\* The arguments of the topology specification: the family against the
\* geometry; a connectivity against a family; the other persisted arrays.
TopologyFamilyArgs(a) ==
    \E c \in Contexts, g \in Geometries, f \in Families(MaxNodes),
       w \in WritePaths, k \in Cracks :
        a = [DefaultArgs(c, g.mesh, g.horizon) EXCEPT
                !.family = f, !.write_path = w, !.initial_crack = k]

\* The stiffness corrections stored with a connectivity: None, or an array
\* of nnodes rows and the width of its neighbour list.
StoredWith(n) ==
    {None} \cup (IF n.kind = "tuple"
                 THEN {Tagged("ndarray", Full2(MaxNodes, n.val.nlist.cols, One))}
                 ELSE {})

TopologyConnectivityArgs(a) ==
    \E c \in Contexts, g \in Geometries, k \in Cracks :
      \E n \in Connectivities(MaxNodes, MeshCoords(g.mesh), g.horizon),
         f \in {None, Tagged("ndarray", [i \in 0..(MaxNodes - 1) |-> 1 + (i % 2)])}
               \cup {Tagged("ndarray", Constant1(MaxNodes, v)) : v \in 1..MaxFamily} :
        \E s \in StoredWith(n) :
          a = [DefaultArgs(c, g.mesh, g.horizon) EXCEPT
                  !.family = f, !.connectivity = n, !.initial_crack = k,
                  !.stiffness_corrections = s]

Volumes(n) ==
    {None, Tagged("list", <<>>)}
    \cup {Tagged("ndarray", [i \in DOMAIN v |-> RInt(v[i])]) : v \in [0..(n - 1) -> 1..MaxVolume]}
    \cup {Tagged("ndarray", Constant1(n + 1, RInt(1)))}

Matrices(n, v) ==
    {None, Tagged("list", <<>>)}
    \cup {Tagged("ndarray", Full2(r, c, v)) : r \in {n, n + 1}, c \in 1..MaxWidth}

Modes == {None} \cup {Tagged("int", x) : x \in 0..2}

\* The persisted arrays against the shapes the constructor expects.
TopologyArtifactArgs(a) ==
    \E c \in Contexts, s \in Matrices(MaxNodes, One), t \in Matrices(MaxNodes, 0),
       v \in {None, Tagged("list", <<>>), Tagged("ndarray", Constant1(MaxNodes, RInt(1))),
              Tagged("ndarray", Constant1(MaxNodes + 1, RInt(1)))} :
        a = [DefaultArgs(c, [nnodes |-> MaxNodes, offset |-> 0, scale |-> 1], 1) EXCEPT
                !.volume = v, !.stiffness_corrections = s, !.material_types = t]

\* The modes of the stiffness correction against the nodal volumes.
TopologyStiffnessArgs(a) ==
    \E c \in Contexts, g \in Geometries, v \in Volumes(MaxNodes), p \in Modes, k \in Cracks :
        a = [DefaultArgs(c, g.mesh, g.horizon) EXCEPT
                !.volume = v, !.precise_stiffness_correction = p, !.initial_crack = k]

\* Damage-model values: a float, and lists and arrays of one and of two
\* dimensions whose entries differ from each other (Vector, Table).
ArrayKinds == {"list", "ndarray"}

DamageValues ==
    {Tagged("float", Scalar(RInt(1)))}
    \cup {Tagged(k, Vector(n, 1)) : k \in ArrayKinds, n \in 1..MaxRegimes}
    \cup {Tagged(k, Table(r, c, 1)) : k \in ArrayKinds, r \in 1..MaxRegimes,
                                      c \in 1..MaxRegimes}

\* The damage model given in every pairing of these values.
TopologyDamageModelArgs(a) ==
    \E c \in Contexts, k \in DamageValues, s \in DamageValues :
        a = [DefaultArgs(c, [nnodes |-> MaxNodes, offset |-> 0, scale |-> 1], 2) EXCEPT
                !.bond_stiffness = k, !.critical_stretch = s]

\* Total volumes: none, and the halves up to MaxVolume.
VolumeTotals == {None} \cup {Tagged("float", Rat(v, 2)) : v \in 1..(2 * MaxVolume)}

\* Both mesh modes against the total volume, on meshes of two sizes, the
\* nodal volumes computed or supplied.
TopologyVolumeArgs(a) ==
    \E c \in Contexts, t \in 0..1, vt \in VolumeTotals, scale \in 1..2,
       v \in {None, Tagged("ndarray", Constant1(MaxNodes, RInt(1)))} :
        a = [DefaultArgs(c, [nnodes |-> MaxNodes, offset |-> 0, scale |-> scale],
                         2 * scale) EXCEPT
                !.transfinite = t, !.volume_total = vt, !.volume = v]

\* Bond-type functions: None and the functions returning the same integer,
\* from one below the first index to MaxRegimes, for every pair of nodes.
BondTypes(mesh) ==
    LET points == {MeshCoords(mesh)[k] : k \in NodesOf(mesh)}
    IN  {None} \cup {Tagged("fn", [p \in (points \X points) |-> v]) :
                        v \in (0 - 1)..MaxRegimes}

\* The material types, computed from a bond-type function or supplied as an
\* array of one value, against damage models of one and of MaxRegimes
\* entries.
TopologyMaterialArgs(a) ==
    \E c \in Contexts, k \in Cracks,
       d \in {Tagged("float", Scalar(RInt(1))), Tagged("ndarray", Table(1, MaxRegimes, 1))},
       b \in BondTypes([nnodes |-> MaxNodes, offset |-> 0, scale |-> 1]),
       t \in {None} \cup {Tagged("ndarray", Full2(MaxNodes, 2, v)) : v \in (0 - 1)..MaxRegimes} :
        a = [DefaultArgs(c, [nnodes |-> MaxNodes, offset |-> 0, scale |-> 1], 1) EXCEPT
                !.bond_stiffness = d, !.critical_stretch = d, !.initial_crack = k,
                !.bond_type = b, !.material_types = t]

\* Crack functions on the node coordinates: no bond cracked, every bond
\* cracked, the bonds of the node at the origin cracked.
CrackFunctions(mesh) ==
    LET points == {MeshCoords(mesh)[k] : k \in NodesOf(mesh)}
    IN  {[p \in (points \X points) |-> FALSE], [p \in (points \X points) |-> TRUE],
         [p \in (points \X points) |-> p[1] = Origin \/ p[2] = Origin]}

\* Callable initial cracks: functions of one argument (the coordinates) and
\* of three (coordinates, nlist, n_neigh) returning a list, and the
\* functions initial_crack_helper makes.
CallableCracks(mesh) ==
    {Tagged("callable", [arity |-> n, returns |-> r]) :
        n \in {1, 3}, r \in {<<>>, <<<<0, 1>>>>}}
    \cup {Tagged("helper", f) : f \in CrackFunctions(mesh)}

\* A callable initial crack against the neighbour list the constructor
\* builds, and against supplied lists of one neighbour per node (node i
\* listing node i + 1, cyclically) and of every other node.
TopologyCrackArgs(a) ==
    \E c \in Contexts, g \in Geometries,
       n \in {None} \cup {Tagged("tuple", [len |-> 2, nlist |-> RingList(MaxNodes, MaxNodes, w),
                                           n_neigh |-> Constant1(MaxNodes, w)]) : w \in 1..2},
       f \in {None} \cup {Tagged("ndarray", Constant1(MaxNodes, v)) : v \in 1..2} :
      \E k \in CallableCracks(g.mesh) :
        a = [DefaultArgs(c, g.mesh, g.horizon) EXCEPT
                !.family = f, !.connectivity = n, !.initial_crack = k]

\* simulate(steps) with every optional argument at its default.
DefaultCall(steps) ==
    [steps |-> steps, u |-> None, ud |-> None, connectivity |-> None, regimes |-> None,
     critical_stretch |-> None, bond_stiffness |-> None,
     displacement_bc_magnitudes |-> None, force_bc_magnitudes |-> None,
     first_step |-> 1, write |-> None, write_path |-> None]

\* The driver: no simulate call is running, none was made.  The fields are
\* the locals of Model.simulate, what it handed to the integrator and what
\* it returned or raised; shared tells that the locals nlist and n_neigh
\* are the arrays of self.initial_connectivity themselves (line 1060), call
\* holds the arguments of the current call.
NoSim ==
    [phase |-> "idle", runs |-> 0, steps |-> 0, step |-> 0,
     set_buffers |-> 0, integrator_calls |-> 0, call |-> DefaultCall(0),
     first_step |-> 1, write |-> None, err |-> "none", returned |-> FALSE,
     plus_cs |-> [called |-> FALSE, err |-> "none", val |-> <<>>],
     displacement_bc_magnitudes |-> <<>>, force_bc_magnitudes |-> <<>>,
     received |-> <<>>,
     u |-> <<>>, ud |-> <<>>, force |-> <<>>, damage |-> <<>>, regimes |-> <<>>,
     nlist |-> <<>>, n_neigh |-> <<>>, shared |-> FALSE,
     read_at |-> 0, mesh_writes |-> <<>>,
     damage_sum_data |-> <<>>, tip_displacement_data |-> <<>>,
     tip_velocity_data |-> <<>>, tip_force_data |-> <<>>, warnings |-> <<>>]

InitTopology ==
    /\ \/ TopologyFamilyArgs(args)
       \/ TopologyConnectivityArgs(args)
       \/ TopologyArtifactArgs(args)
       \/ TopologyStiffnessArgs(args)
       \/ TopologyDamageModelArgs(args)
       \/ TopologyVolumeArgs(args)
       \/ TopologyMaterialArgs(args)
       \/ TopologyCrackArgs(args)
    /\ self = Unset
    /\ pc = "new"
    /\ sim = NoSim

(***************************************************************************)
(* Model.__init__.                                                         *)
(***************************************************************************)
Construct ==
    /\ pc = "new"
    /\ self' = Constructed(args)
    /\ pc' = IF self'.err = "none" THEN "built" ELSE "failed"
    /\ UNCHANGED <<args, sim>>

SpecTopology == InitTopology /\ [][Construct]_vars

(***************************************************************************)
(* The arguments of the boundary specification: a mesh whose nodes all lie *)
(* within each other's horizon, and caller functions given by the value    *)
(* they return at each node coordinate and at the coordinate [0, 0, 0].    *)
(***************************************************************************)
BoundaryMesh(offset) == [nnodes |-> MaxNodes, offset |-> offset, scale |-> 1]

\* The default arguments on such a mesh, the horizon being 2.
BoundaryArgs(context, offset) == DefaultArgs(context, BoundaryMesh(offset), 2)

Points(mesh) == {MeshCoords(mesh)[k] : k \in NodesOf(mesh)} \cup {Origin}

Functions(mesh, returns) ==
    {[kind |-> "fn", val |-> f] : f \in [Points(mesh) -> returns]}

NotCallable == [kind |-> "int"]

List3(x, y, z) == ListOf(<<x, y, z>>)

\* What a function may return: a list of 3, 2 or 4 entries, a tuple of 3, or
\* a value that cannot be subscripted.
ShapeReturns ==
    {DummyReturn,
     ListOf(<<NoneEntry, NoneEntry>>),
     ListOf(<<NoneEntry, NoneEntry, NoneEntry, NoneEntry>>),
     [kind |-> "tuple", val |-> <<NoneEntry, NoneEntry, NoneEntry>>],
     [kind |-> "nonseq", val |-> <<>>]}

\* No condition, clamped, loaded along two axes, loaded along one.
DisplacementReturns ==
    {DummyReturn,
     List3(Entry(0), Entry(0), Entry(0)),
     List3(Entry(1), NoneEntry, Entry(-1)),
     List3(NoneEntry, Entry(1), NoneEntry)}

ForceReturns ==
    {DummyReturn,
     List3(Entry(1), NoneEntry, NoneEntry),
     List3(NoneEntry, Entry(1), NoneEntry),
     List3(Entry(-1), NoneEntry, NoneEntry),
     List3(Entry(1), Entry(1), NoneEntry)}

TipReturns ==
    {DummyReturn,
     List3(Entry(1), NoneEntry, NoneEntry),
     List3(NoneEntry, NoneEntry, Entry(1))}

\* Nodal volumes: computed, the same at every node, or alternating.
NodalVolumes(n) ==
    {None}
    \cup {Tagged("ndarray", Constant1(n, RInt(v))) : v \in 1..MaxVolume}
    \cup {Tagged("ndarray", [i \in 0..(n - 1) |-> RInt(1 + (i % MaxVolume))])}

BoundaryFunctionNames == {"is_displacement_boundary", "is_forces_boundary", "is_tip"}

ShapeArgs(a) ==
    \E o \in 0..1, w \in BoundaryFunctionNames :
      \E f \in {NotCallable} \cup Functions(BoundaryMesh(o), ShapeReturns) :
        a = [BoundaryArgs("cl", o) EXCEPT ![w] = f]

DisplacementArgs(a) ==
    \E c \in Contexts, f \in Functions(BoundaryMesh(0), DisplacementReturns) :
        a = [BoundaryArgs(c, 0) EXCEPT
                !.is_displacement_boundary = f]

ForceArgs(a) ==
    \E f \in Functions(BoundaryMesh(0), ForceReturns), v \in NodalVolumes(MaxNodes) :
        a = [BoundaryArgs("cl", 0) EXCEPT
                !.is_forces_boundary = f, !.volume = v]

TipArgs(a) ==
    \E f \in Functions(BoundaryMesh(0), TipReturns) :
        a = [BoundaryArgs("cl", 0) EXCEPT !.is_tip = f]

Init ==
    /\ \/ ShapeArgs(args)
       \/ DisplacementArgs(args)
       \/ ForceArgs(args)
       \/ TipArgs(args)
    /\ self = Unset
    /\ pc = "new"
    /\ sim = NoSim

(***************************************************************************)
(* Model._set_plus_cs, lines 732-745.  With one regime the list [c0] is    *)
(* returned.  With more, the first pass of the loop evaluates              *)
(* bond_stiffness[-1] and critical_stretch[-1], which a float does not     *)
(* have, and then subscripts the method plus_cs.append.  With fewer the    *)
(* loop is empty and the assertion on the length fails.                    *)
(***************************************************************************)
_set_plus_cs(bond_stiffness, critical_stretch, nregimes, nmaterials) ==
    IF nregimes = 1
    THEN [called |-> TRUE, err |-> "none", val |-> [r \in 0..0 |-> RInt(0)]]
    ELSE IF nregimes - 1 < 1
    THEN [called |-> TRUE, err |-> "AssertionError", val |-> <<>>]
    ELSE IF NpShape(bond_stiffness) = <<>> \/ NpShape(critical_stretch) = <<>>
    THEN [called |-> TRUE, err |-> "IndexError", val |-> <<>>]
    ELSE [called |-> TRUE, err |-> "TypeError", val |-> <<>>]

(***************************************************************************)
(* Model._simulate_initialise, lines 1023-1120.                            *)
(***************************************************************************)
\* What np.empty may hold: the arrays of one call are all filled with
\* zeros or all with ones.
Uninitialised == 0..1

\* Lines 1031-1058: the magnitudes of a boundary condition over the steps.
Magnitudes(x, steps) ==
    IF x.kind = "None" THEN [err |-> "none", val |-> Constant1(steps, RInt(0))]
    ELSE IF x.kind = "ndarray"
    THEN IF ALen(x.val) # steps THEN [err |-> "ValueError", val |-> <<>>]
         ELSE [err |-> "none", val |-> x.val]
    ELSE [err |-> "TypeError", val |-> <<>>]

\* Lines 1059-1069: the connectivity of the run, the Model's own arrays
\* when none is given.
RunConnectivity(m, connectivity) ==
    IF connectivity.kind = "None"
    THEN [err |-> "none", nlist |-> m.nlist, n_neigh |-> m.n_neigh, shared |-> TRUE]
    ELSE IF connectivity.kind = "tuple"
    THEN IF connectivity.val.len # 2
         THEN [err |-> "ValueError", nlist |-> <<>>, n_neigh |-> <<>>, shared |-> FALSE]
         ELSE [err |-> "none", nlist |-> connectivity.val.nlist,
               n_neigh |-> connectivity.val.n_neigh, shared |-> FALSE]
    ELSE [err |-> "TypeError", nlist |-> <<>>, n_neigh |-> <<>>, shared |-> FALSE]

\* Lines 1070-1083: the regimes of the bonds, checked for their shape.
RunRegimes(m, regimes) ==
    IF regimes.kind = "None"
    THEN [err |-> "none", val |-> Full2(m.nnodes, m.max_neighbours, 0)]
    ELSE IF regimes.kind = "ndarray"
    THEN IF <<regimes.val.rows, regimes.val.cols>> # <<m.nnodes, m.max_neighbours>>
         THEN [err |-> "ValueError", val |-> <<>>]
         ELSE [err |-> "none", val |-> regimes.val]
    ELSE [err |-> "TypeError", val |-> <<>>]

\* A set_buffers that takes whatever it is handed.
BuffersUnchecked(m, nlist, n_neigh, u, ud) == TRUE

\* integrator.set_buffers (lines 1113-1115) as section 4.5 of the
\* specification has it: arrays whose shapes do not fit the topology the
\* integrator was built with are refused.
BuffersFit(m, nlist, n_neigh, u, ud) ==
    /\ <<nlist.rows, nlist.cols>> = <<m.nnodes, m.max_neighbours>>
    /\ ALen(n_neigh) = m.nnodes
    /\ <<u.rows, u.cols>> = <<m.nnodes, DegreesOfFreedom>>
    /\ <<ud.rows, ud.cols>> = <<m.nnodes, DegreesOfFreedom>>

\* The locals of simulate after _simulate_initialise, or the error it
\* raised, in a model m, for the arguments call, np.empty holding e.
_simulate_initialise(m, call, e) ==
    LET u == IF call.u.kind = "None" THEN Full2(m.nnodes, 3, RInt(e)) ELSE call.u.val
        ud == IF call.ud.kind = "None" THEN Full2(m.nnodes, 3, RInt(e)) ELSE call.ud.val
        force == Full2(m.nnodes, 3, RInt(e))
        damage == Constant1(m.nnodes, RInt(e))
        d == Magnitudes(call.displacement_bc_magnitudes, call.steps)
        f == Magnitudes(call.force_bc_magnitudes, call.steps)
        plus_cs == _set_plus_cs(AsArray(m.bond_stiffness), AsArray(m.critical_stretch),
                                m.nregimes, m.nmaterials)
        c == RunConnectivity(m, call.connectivity)
        regimes == RunRegimes(m, call.regimes)
        s == [NoSim EXCEPT !.steps = call.steps, !.first_step = call.first_step,
                           !.step = call.first_step, !.write = call.write,
                           !.call = call]
    IN  IF d.err # "none" THEN [s EXCEPT !.err = d.err]
        ELSE IF f.err # "none" THEN [s EXCEPT !.err = f.err]
        ELSE IF c.err # "none" THEN [s EXCEPT !.err = c.err]
        ELSE IF regimes.err # "none" THEN [s EXCEPT !.err = regimes.err]
        ELSE IF plus_cs.err # "none" THEN [s EXCEPT !.err = plus_cs.err, !.plus_cs = plus_cs]
        ELSE IF ~BuffersFit(m, c.nlist, c.n_neigh, u, ud)
        THEN [s EXCEPT !.err = "ConfigurationError", !.plus_cs = plus_cs]
        ELSE [s EXCEPT !.phase = "stepping", !.plus_cs = plus_cs,
                       !.displacement_bc_magnitudes = d.val,
                       !.force_bc_magnitudes = f.val,
                       !.u = u, !.ud = ud, !.force = force, !.damage = damage,
                       !.regimes = regimes.val,
                       !.nlist = c.nlist, !.n_neigh = c.n_neigh, !.shared = c.shared,
                       !.set_buffers = 1]

(***************************************************************************)
(* integrator.write: the arrays the integrator holds at a snapshot.  What  *)
(* they hold is the integrator's business: nothing moved and no damage,    *)
(* displacements with a tenth of the bonds of node 0 broken, or            *)
(* displacements with every bond broken.                                   *)
(***************************************************************************)
IntegratorWrite(nnodes, o) ==
    LET a == IF o = 0 THEN 0 ELSE 1
    IN  [u |-> Arr2(nnodes, 3, [i \in 0..(nnodes - 1) |-> [j \in 0..2 |-> RInt(a * (1 + i))]]),
         ud |-> Arr2(nnodes, 3, [i \in 0..(nnodes - 1) |-> [j \in 0..2 |-> RInt(a * (1 + j))]]),
         force |-> Arr2(nnodes, 3,
                        [i \in 0..(nnodes - 1) |-> [j \in 0..2 |-> RInt(a * (1 + i + j))]]),
         damage |-> [i \in 0..(nnodes - 1) |->
                        IF o = 0 THEN RInt(0)
                        ELSE IF o = 1 THEN (IF i = 0 THEN Rat(1, 10) ELSE RInt(0))
                        ELSE RInt(1)]]

IntegratorStates == 0..2

\* The connectivity the integrator holds at a snapshot, a broken bond being
\* removed from its row: no bond broken, the first bond of node 0 broken,
\* or every bond broken.
IntegratorConnectivity(nlist, n_neigh, o) ==
    IF o = 0 \/ (o = 1 /\ n_neigh[0] = 0) THEN [nlist |-> nlist, n_neigh |-> n_neigh]
    ELSE IF o = 1
    THEN [nlist |-> [nlist EXCEPT !.at[0] =
                        RemoveFromRow(nlist.at[0], n_neigh[0], 0, nlist.at[0][0])],
          n_neigh |-> [n_neigh EXCEPT ![0] = @ - 1]]
    ELSE [nlist |-> Arr2(nlist.rows, nlist.cols,
                         [i \in 0..(nlist.rows - 1) |-> [k \in 0..(nlist.cols - 1) |-> Pad(i)]]),
          n_neigh |-> [i \in DOMAIN n_neigh |-> 0]]

\* integrator.write is handed the host arrays and returns arrays: it fills
\* the arrays it was handed, or it returns new ones.
WriteModes == {"in place", "copy"}

(***************************************************************************)
(* Model.simulate, lines 928-969: the snapshot taken when write divides    *)
(* the step number.                                                        *)
(***************************************************************************)
RECURSIVE TipCount(_, _)
\* Lines 940-944: tmp after the first k entries (i, j) of the
\* (nnodes, degrees_freedom) grid.
TipCount(m, k) ==
    IF k = 0 THEN 0
    ELSE TipCount(m, k - 1)
         + (IF m.tip_types[(k - 1) \div DegreesOfFreedom][(k - 1) % DegreesOfFreedom] = 1
            THEN 1 ELSE 0)

RECURSIVE TipSum(_, _, _)
\* Lines 940-948: the sum of array[i][j] over the tip entries among the
\* first k entries (i, j) of the grid.
TipSum(m, array, k) ==
    IF k = 0 THEN RInt(0)
    ELSE IF m.tip_types[(k - 1) \div DegreesOfFreedom][(k - 1) % DegreesOfFreedom] = 1
    THEN RAdd(TipSum(m, array, k - 1),
              array.at[(k - 1) \div DegreesOfFreedom][(k - 1) % DegreesOfFreedom])
    ELSE TipSum(m, array, k - 1)

\* A recorded value, or None.
Recorded(x) == [some |-> TRUE, v |-> x]

NotRecorded == [some |-> FALSE, v |-> RInt(0)]

\* The tip force divided like the other two.
TipForceAveraged(total, tmp) == IF tmp # 0 THEN Recorded(RDiv(total, RInt(tmp))) ELSE NotRecorded

\* Lines 951-956: the average over the tip entries, None without any.
TipAverage(total, tmp) == IF tmp # 0 THEN Recorded(RDiv(total, RInt(tmp))) ELSE NotRecorded

\* Line 959: the force is appended as summed.
TipForce(total, tmp) == Recorded(total)

\* warnings.warn made an error, as under the filter "error".
WarnAsError(s, message) ==
    [s EXCEPT !.warnings = Append(@, message), !.err = "UserWarning"]

\* warnings.warn.
Warn(s, message) == [s EXCEPT !.warnings = Append(@, message)]

\* Lines 961-969.
DamageWarning(s, damage_sum, nnodes) ==
    IF RGt(damage_sum, Rat(5 * nnodes, 100)) THEN Warn(s, "over 5% of bonds have broken")
    ELSE IF RGt(damage_sum, Rat(7 * nnodes, 10)) THEN Warn(s, "over 7% of bonds have broken")
    ELSE s

Snapshot(m, s, o) ==
    LET h == IntegratorWrite(m.nnodes, o)
        c == IntegratorConnectivity(s.nlist, s.n_neigh, o)
        entries == m.nnodes * DegreesOfFreedom
        tmp == TipCount(m, entries)
        damage_sum == RSum(h.damage, m.nnodes)
    IN  DamageWarning(
            [s EXCEPT !.u = h.u, !.ud = h.ud, !.force = h.force, !.damage = h.damage,
                      !.nlist = c.nlist, !.n_neigh = c.n_neigh,
                      !.read_at = s.integrator_calls,
                      !.mesh_writes = Append(@, s.step),
                      !.tip_displacement_data =
                          Append(@, TipAverage(TipSum(m, h.u, entries), tmp)),
                      !.tip_velocity_data =
                          Append(@, TipAverage(TipSum(m, h.ud, entries), tmp)),
                      !.tip_force_data = Append(@, TipForce(TipSum(m, h.force, entries), tmp)),
                      !.damage_sum_data = Append(@, damage_sum)],
            damage_sum, m.nnodes)

\* Lines 924-929: the pass reaches integrator.write.
Snapshots(s) ==
    /\ s.step - 1 < ALen(s.displacement_bc_magnitudes)
    /\ s.write.kind # "None" /\ s.write.val # 0 /\ s.step % s.write.val = 0

\* Lines 920-969: one pass of the loop, the integrator holding state o
\* after its step.
LoopPass(m, s, o) ==
    IF s.step - 1 >= ALen(s.displacement_bc_magnitudes)
    THEN [s EXCEPT !.err = "IndexError", !.phase = "idle"]
    ELSE LET s1 == [s EXCEPT !.integrator_calls = @ + 1,
                             !.received = Append(@, <<s.displacement_bc_magnitudes[s.step - 1],
                                                      s.force_bc_magnitudes[s.step - 1]>>)]
             s2 == IF Snapshots(s) THEN Snapshot(m, s1, o) ELSE s1
         IN  IF s2.err # "none" THEN [s2 EXCEPT !.phase = "idle"]
             ELSE [s2 EXCEPT !.step = @ + 1]

\* A pass of the loop that applies the initial crack once more.
ModelCrackedAgain(m, s, o, w) ==
    LET c == create_crack(m.crack, [nlist |-> m.nlist, n_neigh |-> m.n_neigh])
    IN  [Logged(m, "create_crack_cl") EXCEPT !.nlist = c.nlist, !.n_neigh = c.n_neigh]

\* Lines 1060 and 929-936: with no connectivity given, the arrays handed to
\* integrator.write are those of self.initial_connectivity; a write that
\* fills them in place changes the Model's copy, there being no other.
ModelAfterPass(m, s, o, w) ==
    IF Snapshots(s) /\ s.shared /\ w = "in place"
    THEN LET c == IntegratorConnectivity(s.nlist, s.n_neigh, o)
         IN  [m EXCEPT !.nlist = c.nlist, !.n_neigh = c.n_neigh]
    ELSE m

(***************************************************************************)
(* The calls of Model.simulate.                                            *)
(***************************************************************************)
\* Magnitudes that differ from step to step and between the two arrays.
Ramp(n, v) == [k \in 0..(n - 1) |-> RInt(v + k)]

\* The models on which simulate is explored with its arguments varied: no
\* tip, the same tip axes at every node, or a tip argument that is no
\* function and fails the construction; one regime or two; no initial crack
\* or one.
SimulateArgs(a) ==
    \E f \in {None, NotCallable}
              \cup {g \in Functions(BoundaryMesh(0), TipReturns) :
                        \A p \in Points(BoundaryMesh(0)) : g.val[p] = g.val[Origin]},
       k \in {Tagged("float", Scalar(RInt(1))), Tagged("list", Table(1, MaxRegimes, 1))},
       crack \in Cracks :
        a = [BoundaryArgs("cl", 0) EXCEPT
                !.is_tip = f, !.bond_stiffness = k, !.critical_stretch = k,
                !.initial_crack = crack]

\* The starting step, the snapshot period and the magnitudes varied: no
\* magnitudes, two arrays of shape (steps,), or one of another shape.
VariedCalls ==
    UNION {{[DefaultCall(steps) EXCEPT !.first_step = first, !.write = w,
                                       !.displacement_bc_magnitudes = mag[1],
                                       !.force_bc_magnitudes = mag[2]] :
               first \in 1..MaxSteps,
               w \in {None} \cup {Tagged("int", x) : x \in 1..MaxSteps},
               mag \in {<<None, None>>,
                        <<Tagged("ndarray", Ramp(steps, 1)),
                          Tagged("ndarray", Ramp(steps, 11))>>,
                        <<Tagged("ndarray", Ramp(steps + 1, 1)), None>>}} :
           steps \in 0..MaxSteps}

\* One array supplied, u, ud, regimes or the connectivity, of the shape the
\* topology asks for or with a row or a column too many, to runs without
\* and with snapshots.
ShapedCalls ==
    LET width == PaddedWidth(MaxNodes - 1)
        shapes(r, c) == {<<r, c>>, <<r + 1, c>>, <<r, c + 1>>}
        with(steps, w) == [DefaultCall(steps) EXCEPT !.write = w]
    IN  UNION {
          {[with(steps, w) EXCEPT !.u = Tagged("ndarray", Full2(s[1], s[2], RInt(0)))] :
              s \in shapes(MaxNodes, DegreesOfFreedom)}
          \cup {[with(steps, w) EXCEPT !.ud = Tagged("ndarray", Full2(s[1], s[2], RInt(0)))] :
              s \in shapes(MaxNodes, DegreesOfFreedom)}
          \cup {[with(steps, w) EXCEPT !.regimes = Tagged("ndarray", Full2(s[1], s[2], 0))] :
              s \in shapes(MaxNodes, width)}
          \cup {[with(steps, w) EXCEPT !.connectivity =
                     Tagged("tuple", [len |-> 2, nlist |-> RingList(MaxNodes, s[1], s[2]),
                                      n_neigh |-> Constant1(l, 1)])] :
              s \in shapes(MaxNodes, width), l \in {MaxNodes, MaxNodes + 1}} :
          steps \in 1..MaxSteps, w \in {None, Tagged("int", 1)}}

\* The calls explored: the first call on a model of SimulateArgs takes the
\* varied arguments and its later calls the defaults; any other model is
\* called once, with the defaults.
SimulateCalls(a, runs) ==
    IF runs = 0 /\ SimulateArgs(a) THEN VariedCalls \cup ShapedCalls
    ELSE IF runs = 0 \/ SimulateArgs(a) THEN {DefaultCall(steps) : steps \in 0..MaxSteps}
    ELSE {}

InitSimulate ==
    /\ SimulateArgs(args)
    /\ self = Unset
    /\ pc = "new"
    /\ sim = NoSim

(***************************************************************************)
(* Model.simulate: _simulate_initialise, the loop over the steps from      *)
(* first_step on, and the return.  The Model object is touched only        *)
(* through the arrays of self.initial_connectivity that a run shares.      *)
(***************************************************************************)
\* Lines 903-918: _simulate_initialise, ending with integrator.set_buffers.
SimulateBegin ==
    /\ pc = "built"
    /\ sim.phase = "idle"
    /\ sim.runs < MaxRuns
    /\ \E call \in SimulateCalls(args, sim.runs), e \in Uninitialised :
          sim' = [_simulate_initialise(self, call, e) EXCEPT
                     !.runs = sim.runs + 1,
                     !.set_buffers = sim.set_buffers + @]
    /\ UNCHANGED <<args, self, pc>>

\* Lines 920-969: one pass of the loop, one call of the integrator.
SimulateStep ==
    /\ sim.phase = "stepping"
    /\ sim.step < sim.first_step + sim.steps
    /\ \E o \in IntegratorStates, w \in WriteModes :
          /\ sim' = LoopPass(self, sim, o)
          /\ self' = ModelAfterPass(self, sim, o, w)
    /\ UNCHANGED <<args, pc>>

\* Lines 970-971.
SimulateReturn ==
    /\ sim.phase = "stepping"
    /\ sim.step = sim.first_step + sim.steps
    /\ sim' = [sim EXCEPT !.phase = "idle", !.returned = TRUE]
    /\ UNCHANGED <<args, self, pc>>

Next == Construct \/ SimulateBegin \/ SimulateStep \/ SimulateReturn

Spec == Init /\ [][Next]_vars

\* The same program on the models of SimulateArgs.
SpecSimulate == InitSimulate /\ [][Next]_vars

\* The loop of simulate is sequential code: a pass that can be made is
\* made, and so is the return.  This is WF_vars(SimulateStep \/
\* SimulateReturn) with its ENABLED written out: one of the two actions is
\* enabled exactly while sim.phase = "stepping".
LoopFairness ==
    []<>(sim.phase # "stepping") \/ []<><<SimulateStep \/ SimulateReturn>>_vars

SpecSimulateFair == SpecSimulate /\ LoopFairness

(***************************************************************************)
(* Properties of the constructor's topology steps, under SpecTopology.     *)
(***************************************************************************)
\* The constructor ran and assigned the attribute / ran the step.
Has(name) == pc # "new" /\ name \in self.assigned

Ran(step) == pc # "new" /\ \E k \in 1..Len(self.log) : self.log[k] = step

Built == pc = "built"

IsPowerOfTwo(x) == \E k \in 0..BitLength(x) : x = 2^k

Nodes == 0..(self.nnodes - 1)

\* C1: whenever the family array the constructor holds, computed by
\* set_family or supplied by the caller, has an entry equal to 0, the
\* construction raises FamilyError, and the message lists exactly the node
\* indices i with family[i] = 0, each of them once and no other index; a
\* family without a zero entry raises no FamilyError.
C1_FamilyErrorListsZeroNodes ==
    Has("family") =>
        LET zeros == {i \in Nodes : self.family[i] = 0}
        IN  /\ (zeros # {}) <=> (self.err = "FamilyError")
            /\ zeros # {} =>
                  /\ {self.errmsg[k] : k \in 1..Len(self.errmsg)} = zeros
                  /\ Len(self.errmsg) = Cardinality(zeros)

\* A supplied family with two zero entries and a non-zero one was rejected.
C1_Witness ==
    /\ Has("family")
    /\ args.family.kind = "ndarray"
    /\ self.err = "FamilyError"
    /\ Len(self.errmsg) = 2
    /\ \E i \in Nodes : self.family[i] > 0

\* C2 (as the specification states it, for a family and a connectivity both
\* supplied by the caller): after every successful construction
\* n_neigh[i] <= family[i] <= max_neighbours for every node i, on both
\* backends.
C2_NeighboursWithinFamilyWithinWidth ==
    (Built /\ args.family.kind = "ndarray" /\ args.connectivity.kind = "tuple") =>
             \A i \in Nodes :
                /\ self.n_neigh[i] <= self.family[i]
                /\ self.family[i] <= self.max_neighbours

\* C3: on the OpenCL backend with no connectivity supplied, max_neighbours
\* is a power of two, at least family.max(), and no smaller power of two is
\* at least family.max(); family.max() is at least 1 there.
C3_PaddedWidthIsNextPowerOfTwo ==
    (Has("max_neighbours") /\ args.context = "cl" /\ args.connectivity.kind = "None") =>
        /\ AMax(self.family) >= 1
        /\ IsPowerOfTwo(self.max_neighbours)
        /\ self.max_neighbours >= AMax(self.family)
        /\ \A w \in 1..(self.max_neighbours - 1) :
              IsPowerOfTwo(w) => w < AMax(self.family)

\* A model was built whose largest family, 5, was padded to the width 8.
C3_Witness ==
    /\ Built
    /\ args.context = "cl" /\ args.connectivity.kind = "None"
    /\ AMax(self.family) = 5
    /\ self.max_neighbours = 8

\* C4 (as the specification states it): on the OpenCL backend a supplied
\* neighbour list whose width is not a power of two is rejected, so that
\* every width a successful construction accepted as max_neighbours is a
\* power of two.
C4_RejectsNonPowerOfTwoWidth ==
    (Built /\ args.context = "cl" /\ args.connectivity.kind = "tuple") =>
        /\ IsPowerOfTwo(args.connectivity.val.nlist.cols)
        /\ IsPowerOfTwo(self.max_neighbours)

\* The shape of each supplied array against the shape the claim C5 names.
ShapeMatches(artifact) ==
    CASE artifact = "volume" -> ALen(args.volume.val) = self.nnodes
      [] artifact = "family" -> ALen(args.family.val) = self.nnodes
      [] artifact = "connectivity" ->
            /\ ALen(args.connectivity.val.n_neigh) = self.nnodes
            /\ args.connectivity.val.nlist.rows = self.nnodes
            /\ args.connectivity.val.nlist.cols = self.max_neighbours
      [] artifact = "stiffness_corrections" ->
            /\ args.stiffness_corrections.val.rows = self.nnodes
            /\ args.stiffness_corrections.val.cols = self.max_neighbours
      [] artifact = "material_types" ->
            /\ args.material_types.val.rows = self.nnodes
            /\ args.material_types.val.cols = self.max_neighbours

Supplied(artifact) ==
    CASE artifact = "volume" -> args.volume.kind = "ndarray"
      [] artifact = "family" -> args.family.kind = "ndarray"
      [] artifact = "connectivity" ->
            args.connectivity.kind = "tuple" /\ args.connectivity.val.len = 2
      [] artifact = "stiffness_corrections" -> args.stiffness_corrections.kind = "ndarray"
      [] artifact = "material_types" -> args.material_types.kind = "ndarray"

StepsOf(artifact) ==
    CASE artifact = "volume" -> {"_volume"}
      [] artifact = "family" -> {"set_family"}
      [] artifact = "connectivity" ->
            {"create_neighbour_list_cython", "create_neighbour_list_cl"}
      [] artifact = "stiffness_corrections" -> {"_set_stiffness_corrections"}
      [] artifact = "material_types" -> {"_set_material_types"}

Artifacts == {"volume", "family", "connectivity", "stiffness_corrections", "material_types"}

\* C5 (as the specification states it): for each supplied array the step
\* that would compute it is not executed, and a construction that succeeds
\* has accepted only arrays of the shape nnodes, or (nnodes, max_neighbours).
C5_SuppliedArraysBypassAndAreShapeChecked ==
    \A artifact \in Artifacts :
        (pc # "new" /\ Supplied(artifact)) =>
            /\ \A step \in StepsOf(artifact) : ~Ran(step)
            /\ Built => ShapeMatches(artifact)

\* C10 (as the specification states it): with family and connectivity
\* computed by the constructor and every nodal volume positive,
\* _set_stiffness_corrections completes in the modes None, 0 and 1; every
\* slot (i, k) with k < n_neigh[i] then holds a positive factor in the modes
\* 0 and 1 and exactly 1.0 in the mode None.
C10_StiffnessCorrectionsInEveryMode ==
    LET mode == args.precise_stiffness_correction
    IN  (/\ Ran("_set_stiffness_corrections")
         /\ args.family.kind = "None" /\ args.connectivity.kind = "None"
         /\ mode.kind = "None" \/ mode.val \in {0, 1}
         /\ \A i \in Nodes : RPos(self.volume[i])) =>
            /\ Has("stiffness_corrections")
            /\ \A i \in Nodes : \A k \in 0..(self.n_neigh[i] - 1) :
                  LET factor == self.stiffness_corrections.at[i][k]
                  IN  IF mode.kind = "None" THEN factor = One
                      ELSE /\ factor.const = RInt(0) /\ RPos(factor.bulk)

(***************************************************************************)
(* Properties of the boundary conditions and of the driver, under Spec.    *)
(***************************************************************************)
BoundaryFunctions ==
    {args.is_displacement_boundary, args.is_forces_boundary, args.is_tip}

\* The function returns a list of exactly 3 entries at the coordinate p.
ReturnsList3At(f, p) == Apply(f, p).kind = "list" /\ Len(Apply(f, p).val) = 3

\* C6 (as the specification states it): if one of the three boundary
\* functions is not callable, or returns at the coordinate of some node
\* anything but a list of exactly 3 entries, the construction fails, no
\* boundary array is produced and integrator.build is not called.
C6_IllFormedBoundaryFunctionIsFatal ==
    (/\ Ran("_set_boundary_conditions")
     /\ \E f \in BoundaryFunctions :
           \/ ~Callable(f)
           \/ \E i \in Nodes : ~ReturnsList3At(f, self.coords[i])) =>
        /\ pc = "failed"
        /\ "tip_types" \notin self.assigned
        /\ self.builds = 0

\* The entry the displacement function returned for node i and axis j.
Returned(f, i, j) == Apply(f, self.coords[i]).val[j + 1]

Axes == 0..(DegreesOfFreedom - 1)

\* C7 (corrected): for every node i and axis j the displacement type array
\* holds 0 where the function returned None (no condition) and 1 where it
\* returned a number, be it 0 (clamped) or +1 / -1 (loaded); the value
\* array holds the returned number, and 0 where there is no condition.
C7_DisplacementTypeIsFlagValueIsReturn ==
    Built => \A i \in Nodes : \A j \in Axes :
        LET bnd_j == Returned(args.is_displacement_boundary, i, j)
        IN  IF bnd_j.some
            THEN self.bc_types[i][j] = 1 /\ self.bc_values[i][j] = RInt(bnd_j.v)
            ELSE self.bc_types[i][j] = 0 /\ self.bc_values[i][j] = RInt(0)

\* A model was built with a clamped node, a node loaded in the negative
\* direction and an axis without condition.
C7_Witness ==
    /\ Built
    /\ \E i \in Nodes : \E j \in Axes :
          Returned(args.is_displacement_boundary, i, j) = Entry(0)
    /\ \E i \in Nodes : \E j \in Axes :
          Returned(args.is_displacement_boundary, i, j) = Entry(-1)
    /\ \E i \in Nodes : \E j \in Axes :
          ~Returned(args.is_displacement_boundary, i, j).some

\* C7 (as the specification states it): the type array holds 2 where there
\* is no condition, 0 where the node is clamped and +1 / -1 where it is
\* loaded.
C7_TypeEncodesDirection ==
    Built => \A i \in Nodes : \A j \in Axes :
        LET bnd_j == Returned(args.is_displacement_boundary, i, j)
        IN  self.bc_types[i][j] = IF bnd_j.some THEN bnd_j.v ELSE 2

\* The force-loaded nodes, and those loaded along the axis j.
ForceNodes ==
    {i \in Nodes : \E j \in Axes : Returned(args.is_forces_boundary, i, j).some}

ForceNodesOn(j) == {i \in Nodes : Returned(args.is_forces_boundary, i, j).some}

RECURSIVE AppliedForce(_, _)
\* The sum of force_bc_values[i][j] * volume[i] over the nodes below n.
AppliedForce(j, n) ==
    IF n = 0 THEN RInt(0)
    ELSE RAdd(AppliedForce(j, n - 1),
              RMul(self.force_bc_values[n - 1][j], self.volume[n - 1]))

RECURSIVE SumReturned(_, _)
\* The sum of the numbers the force function returned for the axis j.
SumReturned(j, n) ==
    IF n = 0 THEN 0
    ELSE SumReturned(j, n - 1)
         + (IF Returned(args.is_forces_boundary, n - 1, j).some
            THEN Returned(args.is_forces_boundary, n - 1, j).v ELSE 0)

\* C8 (corrected): for every axis j carrying a force condition, the sum over
\* the nodes of force_bc_value[i][j] * volume[i] is the sum of the numbers
\* returned for the axis j divided by the number of force-loaded nodes (on
\* any axis); with returned numbers +1 it is 1 exactly when every
\* force-loaded node is loaded along j.
C8_AppliedForceIsShareOfLoadedNodes ==
    Built => \A j \in Axes :
        ForceNodesOn(j) # {} =>
            /\ AppliedForce(j, self.nnodes)
                  = Rat(SumReturned(j, self.nnodes), Cardinality(ForceNodes))
            /\ (\A i \in ForceNodesOn(j) : Returned(args.is_forces_boundary, i, j).v = 1) =>
                  ((AppliedForce(j, self.nnodes) = RInt(1)) <=> (ForceNodesOn(j) = ForceNodes))

\* A model was built with nodes of different volumes, two of them loaded
\* along one axis and a third along another axis only.
C8_Witness ==
    /\ Built
    /\ \E i, k \in Nodes : self.volume[i] # self.volume[k]
    /\ \E j \in Axes : Cardinality(ForceNodesOn(j)) = 2 /\ Cardinality(ForceNodes) = 3

\* C8 (as the specification states it): for every axis carrying a force
\* condition the sum over the nodes of force_bc_value[i][j] * volume[i] is
\* 1 in the loaded direction, however many nodes are loaded and on
\* whichever axes.
C8_AppliedForceIsUnit ==
    Built => \A j \in Axes :
        /\ (/\ ForceNodesOn(j) # {}
            /\ \A i \in ForceNodesOn(j) : Returned(args.is_forces_boundary, i, j).v = 1) =>
              AppliedForce(j, self.nnodes) = RInt(1)
        /\ (/\ ForceNodesOn(j) # {}
            /\ \A i \in ForceNodesOn(j) : Returned(args.is_forces_boundary, i, j).v = -1) =>
              AppliedForce(j, self.nnodes) = RInt(-1)

\* C9 (corrected): over a construction and the simulate calls after it,
\* each of the three boundary functions is invoked nnodes + 2 times: twice
\* on the coordinate [0, 0, 0] and once per node, all of it during the
\* construction; the calls and steps of simulate add none.
C9_FunctionsCalledTwicePlusOncePerNode ==
    Built =>
        /\ self.calls.disp = self.nnodes + 2
        /\ self.calls.force = self.nnodes + 2
        /\ self.calls.tip = self.nnodes + 2

\* A simulate call of two steps has returned on a model built with a
\* caller's displacement function.
C9_Witness ==
    /\ Built
    /\ args.is_displacement_boundary.kind = "fn"
    /\ sim.runs = 1 /\ sim.phase = "idle" /\ sim.integrator_calls = 2
    /\ self.calls.disp = self.nnodes + 2

\* C9 (as the specification states it): each of the three functions is
\* invoked exactly once per node, nnodes times in total.
C9_FunctionsCalledOncePerNode ==
    Built =>
        /\ self.calls.disp = self.nnodes
        /\ self.calls.force = self.nnodes
        /\ self.calls.tip = self.nnodes

(***************************************************************************)
(* Properties of the damage-model arguments and of the nodal volumes,      *)
(* under SpecTopology.                                                     *)
(***************************************************************************)
IsArray(x) == x.kind \in ArrayKinds

\* C12 (as the specification states it): a construction whose
\* bond_stiffness and critical_stretch are both arrays, lists or numpy
\* arrays, of different shapes raises ValueError, and has then run no step
\* and assigned no attribute of the volume, family or neighbour-list setup.
C12_ShapeMismatchRaisesValueError ==
    (/\ pc # "new"
     /\ IsArray(args.bond_stiffness) /\ IsArray(args.critical_stretch)
     /\ NpShape(args.bond_stiffness) # NpShape(args.critical_stretch)) =>
        /\ self.err = "ValueError"
        /\ self.log = <<>>
        /\ self.assigned = {}

\* C13 (as the specification states it): a model built from two
\* (n_regimes, n_materials) arrays, lists or numpy arrays, has nregimes =
\* n_regimes and nmaterials = n_materials; a model built from two floats has
\* nregimes = nmaterials = 1.
C13_RegimesAndMaterialsFromShape ==
    Built =>
        /\ (/\ IsArray(args.bond_stiffness) /\ IsArray(args.critical_stretch)
            /\ Len(NpShape(args.bond_stiffness)) = 2
            /\ NpShape(args.bond_stiffness) = NpShape(args.critical_stretch)) =>
               /\ self.nregimes = NpShape(args.bond_stiffness)[1]
               /\ self.nmaterials = NpShape(args.bond_stiffness)[2]
        /\ (args.bond_stiffness.kind = "float" /\ args.critical_stretch.kind = "float") =>
               self.nregimes = 1 /\ self.nmaterials = 1

\* C20 (as the specification states it): a model built with a total volume
\* has nodal volumes that sum to that total; when the constructor computes
\* them for a transfinite mesh each is volume_total / nnodes.
C20_VolumesSumToSuppliedTotal ==
    (Built /\ args.volume_total.kind # "None") =>
        /\ RSum(self.volume, self.nnodes) = args.volume_total.val
        /\ (args.transfinite # 0 /\ args.volume.kind = "None") =>
               \A i \in Nodes :
                   self.volume[i] = RDiv(args.volume_total.val, RInt(self.nnodes))

(***************************************************************************)
(* Properties of Model.simulate, under SpecSimulate.                       *)
(***************************************************************************)
\* simulate got past _simulate_initialise in the current call.
Initialised ==
    /\ sim.runs > 0 /\ sim.plus_cs.called /\ sim.plus_cs.err = "none"
    /\ sim.err # "ConfigurationError"

\* The current call of simulate is over, by return or by an exception.
Ended == sim.runs > 0 /\ sim.phase = "idle"

\* C11 (as the specification states it): for a model of nregimes >= 1,
\* _set_plus_cs returns nregimes intercepts c with c[0] = 0 and, for each
\* regime r in 1..nregimes-1 and each material, bond_stiffness[r-1] *
\* critical_stretch[r-1] + c[r-1] = bond_stiffness[r] * critical_stretch[r-1]
\* + c[r].
C11_PlusCsContinuousFromZero ==
    (sim.plus_cs.called /\ self.nregimes >= 1) =>
        /\ sim.plus_cs.err = "none"
        /\ ALen(sim.plus_cs.val) = self.nregimes
        /\ sim.plus_cs.val[0] = RInt(0)
        /\ \A r \in 1..(self.nregimes - 1) :
             \A j \in DOMAIN self.bond_stiffness.val.at[0] :
                RAdd(RMul(self.bond_stiffness.val.at[r - 1][j],
                          self.critical_stretch.val.at[r - 1][j]), sim.plus_cs.val[r - 1])
                = RAdd(RMul(self.bond_stiffness.val.at[r][j],
                            self.critical_stretch.val.at[r - 1][j]), sim.plus_cs.val[r])

\* C14 (as the specification states it): a call simulate(steps,
\* first_step = f) that got past its initialisation, its magnitude arrays
\* being of shape (steps,), ends by returning, has invoked the integrator
\* exactly steps times, and the k-th invocation received entry k of
\* displacement_bc_magnitudes and of force_bc_magnitudes, for every f >= 1.
C14_KthCallReceivesKthMagnitudes ==
    (Ended /\ Initialised) =>
        /\ sim.returned
        /\ sim.integrator_calls = sim.steps
        /\ Len(sim.received) = sim.steps
        /\ \A k \in 1..sim.steps :
              sim.received[k] = <<sim.displacement_bc_magnitudes[k - 1],
                                  sim.force_bc_magnitudes[k - 1]>>

\* The (node, axis) entries marked as tip.
TipEntries == {e \in Nodes \X Axes : self.tip_types[e[1]][e[2]] = 1}

RECURSIVE SumOver(_, _)
\* The sum of a (nnodes, 3) array over a set of entries.
SumOver(S, array) ==
    IF S = {} THEN RInt(0)
    ELSE LET e == CHOOSE x \in S : TRUE
         IN  RAdd(array.at[e[1]][e[2]], SumOver(S \ {e}, array))

\* The mean of a (nnodes, 3) array over a non-empty set of entries.
MeanOver(S, array) == RDiv(SumOver(S, array), RInt(Cardinality(S)))

\* The last entry of a list.
Last(list) == list[Len(list)]

\* Every snapshot appended one entry to each of the three tip lists.
TipListsGrowTogether ==
    /\ Len(sim.tip_displacement_data) = Len(sim.mesh_writes)
    /\ Len(sim.tip_velocity_data) = Len(sim.mesh_writes)
    /\ Len(sim.tip_force_data) = Len(sim.mesh_writes)

\* C15 (amended): at each snapshot, when no (node, axis) entry is marked as
\* tip, the tip displacement and the tip velocity are recorded as None and
\* the tip force as 0; otherwise displacement and velocity are the averages
\* and the force is the sum, over the marked entries, of the arrays the
\* integrator wrote.
C15_NoTipRecordsNoneAndZeroForce ==
    sim.mesh_writes # <<>> =>
        /\ TipListsGrowTogether
        /\ TipEntries = {} =>
              /\ Last(sim.tip_displacement_data) = NotRecorded
              /\ Last(sim.tip_velocity_data) = NotRecorded
              /\ Last(sim.tip_force_data) = Recorded(RInt(0))
        /\ TipEntries # {} =>
              /\ Last(sim.tip_displacement_data) = Recorded(MeanOver(TipEntries, sim.u))
              /\ Last(sim.tip_velocity_data) = Recorded(MeanOver(TipEntries, sim.ud))
              /\ Last(sim.tip_force_data) = Recorded(SumOver(TipEntries, sim.force))

\* A snapshot was taken of a model without tip entries, and one of a model
\* with several, where the forces differ from 0.
C15_Witness ==
    /\ sim.mesh_writes # <<>>
    /\ TipEntries = {}
    /\ sim.force.at[0][0] # RInt(0)
    /\ Last(sim.tip_force_data) = Recorded(RInt(0))

\* C15 (as the specification states it): without a tip entry all three,
\* the force too, are recorded as None; otherwise as above.
C15_NoTipRecordsNoneForAllThree ==
    sim.mesh_writes # <<>> =>
        /\ TipListsGrowTogether
        /\ TipEntries = {} =>
              /\ Last(sim.tip_displacement_data) = NotRecorded
              /\ Last(sim.tip_velocity_data) = NotRecorded
              /\ Last(sim.tip_force_data) = NotRecorded
        /\ TipEntries # {} =>
              /\ Last(sim.tip_displacement_data) = Recorded(MeanOver(TipEntries, sim.u))
              /\ Last(sim.tip_velocity_data) = Recorded(MeanOver(TipEntries, sim.ud))
              /\ Last(sim.tip_force_data) = Recorded(SumOver(TipEntries, sim.force))

\* C16: a warning about the damage sum never ends the loop: the pass that
\* warns leaves simulate running without an error, and a call from
\* first_step = 1 that has warned goes on to make all its steps integrator
\* calls and to return (under SpecSimulateFair).
C16_WarningsDoNotStopTheLoop ==
    /\ [][Len(sim'.warnings) > Len(sim.warnings) =>
             sim'.phase = "stepping" /\ sim'.err = "none"]_vars
    /\ (sim.warnings # <<>> /\ sim.first_step = 1)
          ~> (sim.returned /\ sim.integrator_calls = sim.steps)

\* A call that warned at a snapshot before its last one has returned.
C16_Witness ==
    /\ sim.returned
    /\ Len(sim.warnings) >= 2
    /\ sim.integrator_calls = sim.steps

\* C17 (as the specification states it): whatever `write` is, the arrays
\* simulate returns are those of the integrator's state after its last
\* call, the arrays handed to set_buffers when no call was made.
C17_ReturnsStateAfterLastStep ==
    sim.returned => sim.read_at = sim.integrator_calls

\* C18 (as the specification states it): the damage sums simulate returns
\* have one entry per step, entry k taken after the k-th step.
C18_OneDamageSumPerStep ==
    sim.returned =>
        /\ Len(sim.damage_sum_data) = sim.steps
        /\ \A k \in 1..Len(sim.mesh_writes) : sim.mesh_writes[k] = sim.first_step + k - 1

\* C19 (as the specification states it): simulate called with u = None,
\* ud = None and regimes = None hands the integrator, and returns after 0
\* steps, displacements that are all 0, velocities that are all 0 and bond
\* regimes that are all 0.
C19_DefaultStateIsZero ==
    (/\ Initialised /\ sim.integrator_calls = 0
     /\ sim.call.u.kind = "None" /\ sim.call.ud.kind = "None"
     /\ sim.call.regimes.kind = "None") =>
        /\ \A i \in Nodes, j \in Axes :
              sim.u.at[i][j] = RInt(0) /\ sim.ud.at[i][j] = RInt(0)
        /\ \A i \in Nodes, k \in 0..(self.max_neighbours - 1) : sim.regimes.at[i][k] = 0

(***************************************************************************)
(* Properties of the material types, under SpecTopology.                   *)
(***************************************************************************)
\* C21 (as the specification states it): in a built model every material
\* index material_types[i][k] of a bond, k < n_neigh[i], is an index into
\* the per-material arrays, 0 <= index < nregimes * nmaterials, whatever
\* bond_type returns and whatever material_types array was supplied.
C21_MaterialIndicesAreValid ==
    Built =>
        \A i \in Nodes : \A k \in 0..(self.n_neigh[i] - 1) :
            /\ 0 <= self.material_types.at[i][k]
            /\ self.material_types.at[i][k] < self.nregimes * self.nmaterials

\* The shape of a supplied simulate argument does not fit the topology of
\* the model or the number of steps.
IllShaped(call) ==
    LET differs(x, shape) == x.kind = "ndarray" /\ <<x.val.rows, x.val.cols>> # shape
        long(x) == x.kind = "ndarray" /\ ALen(x.val) # call.steps
    IN  \/ differs(call.u, <<self.nnodes, 3>>)
        \/ differs(call.ud, <<self.nnodes, 3>>)
        \/ differs(call.regimes, <<self.nnodes, self.max_neighbours>>)
        \/ /\ call.connectivity.kind = "tuple" /\ call.connectivity.val.len = 2
           /\ \/ <<call.connectivity.val.nlist.rows, call.connectivity.val.nlist.cols>>
                    # <<self.nnodes, self.max_neighbours>>
              \/ ALen(call.connectivity.val.n_neigh) # self.nnodes
        \/ long(call.displacement_bc_magnitudes)
        \/ long(call.force_bc_magnitudes)

\* C22: a simulate call with a supplied array whose shape does not fit the
\* model's topology (u or ud not (nnodes, 3), regimes or nlist not (nnodes,
\* max_neighbours), n_neigh not (nnodes,), magnitudes not (steps,)) raises
\* an error, and no integrator step of that call is executed.
C22_IllShapedArraysStopBeforeStepping ==
    (sim.runs > 0 /\ IllShaped(sim.call)) =>
        /\ sim.err # "none"
        /\ sim.phase = "idle" /\ ~sim.returned
        /\ sim.integrator_calls = 0

\* A call with displacements of a wrong shape, or with a neighbour list of
\* a wrong shape, was refused.
C22_Witness ==
    /\ sim.runs > 0 /\ sim.err # "none" /\ sim.call.steps > 0
    /\ \/ sim.call.u.kind = "ndarray" /\ sim.call.u.val.rows # self.nnodes
       \/ /\ sim.call.connectivity.kind = "tuple"
          /\ sim.call.connectivity.val.nlist.cols # self.max_neighbours

(***************************************************************************)
(* Properties of the initial crack, under SpecTopology.                    *)
(***************************************************************************)
\* The construction from the same arguments without an initial crack: its
\* nlist and n_neigh are the connectivity the crack is applied to.
Uncracked == Constructed([args EXCEPT !.initial_crack = Tagged("list", <<>>)])

\* create_crack was called.
CrackApplied == Ran("create_crack_cython") \/ Ran("create_crack_cl")

\* The neighbour list c holds the bond between i and j in a direction.
Bonded(c, i, j) ==
    \/ HasBond(c.nlist.at[i], c.n_neigh[i], j)
    \/ HasBond(c.nlist.at[j], c.n_neigh[j], i)

Count(list, p) == Cardinality({k \in 1..Len(list) : list[k] = p})

\* C23 (as the specification states it): the function made by
\* initial_crack_helper(crack_function) tests every bond of the neighbour
\* list, whichever direction holds it, exactly once and no other pair, and
\* returns exactly the bonded pairs (i, j), i < j, for which crack_function
\* is true of the two coordinates.
C23_HelperReturnsCrackedBondedPairs ==
    (args.initial_crack.kind = "helper" /\ CrackApplied) =>
        \A i, j \in Nodes :
            /\ Count(self.tested, <<i, j>>) =
                   (IF i < j /\ Bonded(Uncracked, i, j) THEN 1 ELSE 0)
            /\ Count(self.crack, <<i, j>>) =
                   (IF /\ i < j /\ Bonded(Uncracked, i, j)
                       /\ args.initial_crack.val[<<self.coords[i], self.coords[j]>>]
                    THEN 1 ELSE 0)

\* C24 (as the specification states it): a callable initial_crack that
\* takes the coordinates array as its only argument is called by the
\* constructor, once the connectivity is there, and the list it returns is
\* the crack that is applied.
C24_CallableTakesCoordinatesOnly ==
    (/\ pc # "new" /\ args.initial_crack.kind = "callable"
     /\ args.initial_crack.val.arity = 1
     /\ "initial_connectivity" \in Uncracked.assigned) =>
        /\ self.calls.crack = 1
        /\ CrackApplied
        /\ self.crack = args.initial_crack.val.returns
        /\ LET c == create_crack(self.crack,
                                 [nlist |-> Uncracked.nlist, n_neigh |-> Uncracked.n_neigh])
           IN  self.nlist = c.nlist /\ self.n_neigh = c.n_neigh

(***************************************************************************)
(* Properties of the order of the setup, under SpecTopology.               *)
(***************************************************************************)
\* The setup steps after the family: the attributes they assign and the
\* steps and write_array calls they log.
LaterAttributes ==
    {"max_neighbours", "initial_connectivity", "stiffness_corrections", "material_types",
     "bc_types", "bc_values", "force_bc_types", "force_bc_values", "tip_types"}

LaterSteps ==
    {"create_neighbour_list_cython", "create_neighbour_list_cl", "write_nlist",
     "write_n_neigh", "create_crack_cython", "create_crack_cl",
     "_set_stiffness_corrections", "write_stiffness_corrections", "_set_material_types",
     "write_material_types", "_set_boundary_conditions", "integrator.build"}

NothingAfterFamily ==
    /\ self.err = "FamilyError"
    /\ \A step \in LaterSteps : ~Ran(step)
    /\ self.assigned \cap LaterAttributes = {}
    /\ self.calls = NoCalls
    /\ self.builds = 0

\* C25 (amended): when some node has zero family, FamilyError is raised
\* before any later setup action: no neighbour list is built, no initial
\* crack is applied, no stiffness corrections, material types or boundary
\* arrays are computed and integrator.build is not called.  A family the
\* constructor computed is by then written to write_path, if one is given;
\* a supplied family is never written.
C25_FamilyErrorStopsLaterSetup ==
    (Has("family") /\ AnyZero(self.family)) =>
        /\ NothingAfterFamily
        /\ Ran("write_family") <=>
              (args.family.kind = "None" /\ args.write_path.kind # "None")

\* A computed family with a zero entry was written to the write path and
\* the construction stopped there.
C25_Witness ==
    /\ Has("family") /\ AnyZero(self.family)
    /\ args.family.kind = "None" /\ args.write_path.kind # "None"
    /\ self.err = "FamilyError"
    /\ self.log[Len(self.log)] = "write_family"

\* C25 (as the specification states it): with a node of zero family the
\* family array is not persisted to write_path either.
C25_FamilyErrorBeforeFamilyIsPersisted ==
    (Has("family") /\ AnyZero(self.family)) =>
        /\ NothingAfterFamily
        /\ ~Ran("write_family")

(***************************************************************************)
(* Properties of the Model across simulate calls, under SpecSimulate.      *)
(***************************************************************************)
\* C26: the initial crack is removed once, during construction and after
\* the family is fixed: the constructed model has the family of the
\* uncracked one and no node has more neighbours than there; and no step of
\* a simulate call applies the crack list or calls the crack function again
\* or changes the family.
C26_CrackIsAppliedOnceAtConstruction ==
    /\ [](CrackApplied =>
            /\ self.family = Uncracked.family
            /\ \A k, l \in 1..Len(self.log) :
                  (self.log[k] = "set_family" /\ self.log[l] = "create_crack_cl") => k < l
            /\ sim.runs = 0 =>
                  \A i \in Nodes : self.n_neigh[i] <= Uncracked.n_neigh[i])
    /\ [][pc = "built" =>
            /\ self'.log = self.log
            /\ self'.calls = self.calls
            /\ self'.crack = self.crack
            /\ self'.family = self.family]_vars

\* A model whose initial crack took a bond from node 0 ran through a
\* simulate call with integrator steps.
C26_Witness ==
    /\ CrackApplied /\ self.crack # <<>>
    /\ self.n_neigh[0] < Uncracked.n_neigh[0]
    /\ sim.returned /\ sim.integrator_calls > 0

(***************************************************************************)
(* Properties of the stiffness corrections, under SpecTopology.            *)
(***************************************************************************)
\* The volumes of the nodes in the current neighbour list of node i summed.
CurrentFamilyVolume(i) == SumVolumes(self, self.nlist.at[i], self.n_neigh[i])

\* C27 (as the specification states it): in precise mode the factor stored
\* for the bond from i to j = nlist[i][k], k < n_neigh[i], is
\* 2 * bulk_family_volume / (family_volume(i) + family_volume(j)), the
\* family volume of a node being the sum of the volumes of exactly the nodes
\* in its neighbour list as the initial crack left it.
C27_PreciseFactorsFromCurrentNeighbours ==
    (/\ Built /\ args.stiffness_corrections.kind = "None"
     /\ args.precise_stiffness_correction = Tagged("int", 1)) =>
        \A i \in Nodes : \A k \in 0..(self.n_neigh[i] - 1) :
            self.stiffness_corrections.at[i][k] =
                PreciseFactor(CurrentFamilyVolume(i),
                              CurrentFamilyVolume(self.nlist.at[i][k]))

(***************************************************************************)
(* Properties of the order in which the Model drives the integrator,       *)
(* under SpecSimulate.                                                     *)
(***************************************************************************)
\* C28: integrator.build is called exactly once, as the last action of a
\* successful construction, and not at all by a failed one; simulate runs
\* on a built model only; a simulate call that gets to its loop has called
\* set_buffers exactly once, in _simulate_initialise before the first step,
\* and no step of the loop calls it again; so the integrator is stepped
\* only after build and set_buffers.
C28_BuildThenBuffersThenSteps ==
    /\ [](/\ Built => (self.builds = 1 /\ Last(self.log) = "integrator.build"
                       /\ Count(self.log, "integrator.build") = 1)
          /\ pc = "failed" => (self.builds = 0 /\ ~Ran("integrator.build"))
          /\ pc # "built" => sim = NoSim
          /\ sim.phase = "stepping" => sim.set_buffers > 0)
    /\ [][/\ sim'.runs = sim.runs + 1 =>
                /\ sim'.integrator_calls = 0
                /\ sim'.set_buffers =
                      sim.set_buffers + (IF sim'.phase = "stepping" THEN 1 ELSE 0)
          /\ sim'.runs = sim.runs => sim'.set_buffers = sim.set_buffers
          /\ sim'.integrator_calls > sim.integrator_calls =>
                /\ Built /\ self.builds = 1
                /\ sim.phase = "stepping"
                /\ sim'.runs = sim.runs]_vars

\* The second simulate call on a model stepped the integrator, after the
\* second set_buffers.
C28_Witness ==
    /\ Built /\ sim.runs = 2 /\ sim.set_buffers = 2
    /\ sim.integrator_calls > 0

\* C29 (as the specification states it): no simulate call changes the
\* connectivity the Model holds from its construction, and every simulate
\* call without a connectivity argument hands that connectivity to the
\* integrator, whatever bonds broke and whatever snapshots were read back
\* in a previous call.
C29_InitialConnectivityIsKept ==
    /\ Built => /\ self.nlist = Constructed(args).nlist
                /\ self.n_neigh = Constructed(args).n_neigh
    /\ (/\ sim.phase = "stepping" /\ sim.integrator_calls = 0
        /\ sim.call.connectivity.kind = "None") =>
           /\ sim.nlist = Constructed(args).nlist
           /\ sim.n_neigh = Constructed(args).n_neigh

(***************************************************************************)
(* Properties of the damage warnings, under SpecSimulate.                  *)
(***************************************************************************)
\* The warnings lines 961-968 issue for a damage sum of d hundredths; the
\* damage of a node lying between 0 and 1, the sums are those up to nnodes.
WarningsFor(d) == DamageWarning(NoSim, Rat(d, 100), self.nnodes).warnings

\* C30 (as the specification states it): for a built model there is a
\* damage sum at which the warning of the lower threshold, 0.05 * nnodes,
\* is issued and one at which the warning of the higher threshold,
\* 0.7 * nnodes, is issued, and no damage sum issues more than one warning.
C30_BothDamageWarningsReachable ==
    Built =>
        /\ \E d \in 0..(100 * self.nnodes) :
              WarningsFor(d) = <<"over 5% of bonds have broken">>
        /\ \E d \in 0..(100 * self.nnodes) :
              WarningsFor(d) = <<"over 7% of bonds have broken">>
        /\ \A d \in 0..(100 * self.nnodes) : Len(WarningsFor(d)) <= 1

====
